---- MODULE Spec2Model ----
(***************************************************************************)
(* CSV bulk import of orders with sales-tax resolution                     *)
(* (INT20H_backend/src/orders.ts, tax.ts, db.ts).                          *)
(*                                                                         *)
(* Numbers are fixed point: coordinates and money in units of 10^-4,       *)
(* rates in units of 10^-5.  Raw CSV fields are sequences of one-character *)
(* strings so that parseFloat / parseInt are computed, not assumed.        *)
(*                                                                         *)
(* JavaScript runs every handler to completion between two awaits.  The    *)
(* variable running names the handler that holds the event loop; while it  *)
(* is set only that handler steps, so the steps of one synchronous run are *)
(* never interleaved with another request, a cancel or a lookup callback.  *)
(***************************************************************************)
EXTENDS Integers, Sequences, FiniteSets, TLC

VARIABLES
    orders,          \* the orders table: id -> record
    importSessions,  \* registry of live streaming sessions
    stream,          \* per streaming request: the handler's locals and position
    sync,            \* the synchronous import request
    cancelReply,     \* response of the last POST /import/cancel
    manual,          \* the manual creation request (POST /orders)
    now,             \* what new Date().toISOString() returns
    calc,            \* the last call of the bounding-box calculateTax
    rowids,          \* the id column at full width, and the last id made for it
    running          \* handler currently holding the event loop, or Idle

vars == <<orders, importSessions, stream, sync, cancelReply, manual, running, now, calc, rowids>>

----------------------------------------------------------------------------
(* Bounds of the model *)

MaxRows == 2
MaxLongRows == 6
MaxId == 3
MaxClock == 10
MaxBigRows == 21

(* Program constants *)

BATCH_SIZE == 5
MaxErrors == 20
\* the geocoder timeout, in seconds
Timeout == 8

Scale == 10^4

\* NaN: a value that no parse of a number yields
NaN == 0 - 2^30
\* null of a number-valued JSON field (JSON.stringify writes NaN as null)
JsonNull == 0 - 2^29
Idle == "idle"
Null == "null"

Sessions == {"s1", "s2"}

----------------------------------------------------------------------------
(* parseFloat / parseInt on a raw field *)

Digits == <<"0", "1", "2", "3", "4", "5", "6", "7", "8", "9">>

IsDigit(c) == \E d \in 1..10 : Digits[d] = c

DigitVal(c) == (CHOOSE d \in 1..10 : Digits[d] = c) - 1

RECURSIVE DigitRun(_, _)
\* number of consecutive digits of s from position k on
DigitRun(s, k) ==
    IF k <= Len(s) /\ IsDigit(s[k]) THEN 1 + DigitRun(s, k + 1) ELSE 0

RECURSIVE DigitsValue(_, _, _)
\* value of the n digits of s that start at position k
DigitsValue(s, k, n) ==
    IF n = 0 THEN 0
    ELSE DigitsValue(s, k, n - 1) * 10 + DigitVal(s[k + n - 1])

RECURSIVE FractionValue(_, _, _, _)
\* the first digits of a fraction, in units of 10^-4 (weight w for digit k)
FractionValue(s, k, n, w) ==
    IF n = 0 \/ w = 0 THEN 0
    ELSE DigitVal(s[k]) * w + FractionValue(s, k + 1, n - 1, w \div 10)

\* parseFloat: longest numeric prefix [sign] digits [. digits]; NaN if none
ParseFloat(s) ==
    LET signed == Len(s) >= 1 /\ s[1] \in {"-", "+"}
        p == IF signed THEN 2 ELSE 1
        n1 == DigitRun(s, p)
        dot == p + n1 <= Len(s) /\ s[p + n1] = "."
        n2 == IF dot THEN DigitRun(s, p + n1 + 1) ELSE 0
        mag == DigitsValue(s, p, n1) * Scale
               + FractionValue(s, p + n1 + 1, n2, Scale \div 10)
    IN  IF n1 + n2 = 0 THEN NaN
        ELSE IF signed /\ s[1] = "-" THEN 0 - mag ELSE mag

\* parseInt (radix 10): longest prefix [sign] digits; NaN if none
ParseInt(s) ==
    LET signed == Len(s) >= 1 /\ s[1] \in {"-", "+"}
        p == IF signed THEN 2 ELSE 1
        n1 == DigitRun(s, p)
        mag == DigitsValue(s, p, n1)
    IN  IF n1 = 0 THEN NaN
        ELSE IF signed /\ s[1] = "-" THEN 0 - mag ELSE mag

isNaN(x) == x = NaN

----------------------------------------------------------------------------
(* tax.ts *)

NY_BOUNDS == [minLat |-> 401700, maxLat |-> 450200,
              minLon |-> 0 - 797700, maxLon |-> 0 - 714800]

isInNewYork(lat, lon) ==
    /\ lat >= NY_BOUNDS.minLat
    /\ lat <= NY_BOUNDS.maxLat
    /\ lon >= NY_BOUNDS.minLon
    /\ lon <= NY_BOUNDS.maxLon

NY_COUNTY_RATES == {
  [fips |-> "36005", name |-> "New York City (Bronx)", state_rate |-> 4000, county_rate |-> 4500, city_rate |-> 375, special_rate |-> 0, composite_tax_rate |-> 8875],
  [fips |-> "36047", name |-> "New York City (Brooklyn)", state_rate |-> 4000, county_rate |-> 4500, city_rate |-> 375, special_rate |-> 0, composite_tax_rate |-> 8875],
  [fips |-> "36061", name |-> "New York City (Manhattan)", state_rate |-> 4000, county_rate |-> 4500, city_rate |-> 375, special_rate |-> 0, composite_tax_rate |-> 8875],
  [fips |-> "36081", name |-> "New York City (Queens)", state_rate |-> 4000, county_rate |-> 4500, city_rate |-> 375, special_rate |-> 0, composite_tax_rate |-> 8875],
  [fips |-> "36085", name |-> "New York City (Staten Island)", state_rate |-> 4000, county_rate |-> 4500, city_rate |-> 375, special_rate |-> 0, composite_tax_rate |-> 8875],
  [fips |-> "36059", name |-> "Nassau County", state_rate |-> 4000, county_rate |-> 4250, city_rate |-> 375, special_rate |-> 0, composite_tax_rate |-> 8625],
  [fips |-> "36103", name |-> "Suffolk County", state_rate |-> 4000, county_rate |-> 4250, city_rate |-> 375, special_rate |-> 0, composite_tax_rate |-> 8625],
  [fips |-> "36119", name |-> "Westchester County", state_rate |-> 4000, county_rate |-> 4000, city_rate |-> 375, special_rate |-> 0, composite_tax_rate |-> 8375],
  [fips |-> "36087", name |-> "Rockland County", state_rate |-> 4000, county_rate |-> 4000, city_rate |-> 375, special_rate |-> 0, composite_tax_rate |-> 8375],
  [fips |-> "36071", name |-> "Orange County", state_rate |-> 4000, county_rate |-> 3750, city_rate |-> 375, special_rate |-> 0, composite_tax_rate |-> 8125],
  [fips |-> "36027", name |-> "Dutchess County", state_rate |-> 4000, county_rate |-> 3750, city_rate |-> 375, special_rate |-> 0, composite_tax_rate |-> 8125],
  [fips |-> "36079", name |-> "Putnam County", state_rate |-> 4000, county_rate |-> 4000, city_rate |-> 375, special_rate |-> 0, composite_tax_rate |-> 8375],
  [fips |-> "36111", name |-> "Ulster County", state_rate |-> 4000, county_rate |-> 3750, city_rate |-> 0, special_rate |-> 0, composite_tax_rate |-> 7750],
  [fips |-> "36039", name |-> "Greene County", state_rate |-> 4000, county_rate |-> 4000, city_rate |-> 0, special_rate |-> 0, composite_tax_rate |-> 8000],
  [fips |-> "36021", name |-> "Columbia County", state_rate |-> 4000, county_rate |-> 4000, city_rate |-> 0, special_rate |-> 0, composite_tax_rate |-> 8000],
  [fips |-> "36113", name |-> "Warren County", state_rate |-> 4000, county_rate |-> 4000, city_rate |-> 0, special_rate |-> 0, composite_tax_rate |-> 8000],
  [fips |-> "36115", name |-> "Washington County", state_rate |-> 4000, county_rate |-> 4000, city_rate |-> 0, special_rate |-> 0, composite_tax_rate |-> 8000],
  [fips |-> "36091", name |-> "Saratoga County", state_rate |-> 4000, county_rate |-> 3000, city_rate |-> 0, special_rate |-> 0, composite_tax_rate |-> 7000],
  [fips |-> "36001", name |-> "Albany County", state_rate |-> 4000, county_rate |-> 4000, city_rate |-> 0, special_rate |-> 0, composite_tax_rate |-> 8000],
  [fips |-> "36093", name |-> "Schenectady County", state_rate |-> 4000, county_rate |-> 4000, city_rate |-> 0, special_rate |-> 0, composite_tax_rate |-> 8000],
  [fips |-> "36083", name |-> "Rensselaer County", state_rate |-> 4000, county_rate |-> 4000, city_rate |-> 0, special_rate |-> 0, composite_tax_rate |-> 8000],
  [fips |-> "36035", name |-> "Fulton County", state_rate |-> 4000, county_rate |-> 4000, city_rate |-> 0, special_rate |-> 0, composite_tax_rate |-> 8000],
  [fips |-> "36057", name |-> "Montgomery County", state_rate |-> 4000, county_rate |-> 4500, city_rate |-> 0, special_rate |-> 0, composite_tax_rate |-> 8500],
  [fips |-> "36077", name |-> "Otsego County", state_rate |-> 4000, county_rate |-> 4000, city_rate |-> 0, special_rate |-> 0, composite_tax_rate |-> 8000],
  [fips |-> "36019", name |-> "Clinton County", state_rate |-> 4000, county_rate |-> 4000, city_rate |-> 0, special_rate |-> 0, composite_tax_rate |-> 8000],
  [fips |-> "36031", name |-> "Essex County", state_rate |-> 4000, county_rate |-> 4000, city_rate |-> 0, special_rate |-> 0, composite_tax_rate |-> 8000],
  [fips |-> "36033", name |-> "Franklin County", state_rate |-> 4000, county_rate |-> 4000, city_rate |-> 0, special_rate |-> 0, composite_tax_rate |-> 8000],
  [fips |-> "36045", name |-> "Jefferson County", state_rate |-> 4000, county_rate |-> 4000, city_rate |-> 0, special_rate |-> 0, composite_tax_rate |-> 8000],
  [fips |-> "36049", name |-> "Lewis County", state_rate |-> 4000, county_rate |-> 4000, city_rate |-> 0, special_rate |-> 0, composite_tax_rate |-> 8000],
  [fips |-> "36089", name |-> "St. Lawrence County", state_rate |-> 4000, county_rate |-> 4000, city_rate |-> 0, special_rate |-> 0, composite_tax_rate |-> 8000],
  [fips |-> "36041", name |-> "Hamilton County", state_rate |-> 4000, county_rate |-> 4000, city_rate |-> 0, special_rate |-> 0, composite_tax_rate |-> 8000],
  [fips |-> "36043", name |-> "Herkimer County", state_rate |-> 4000, county_rate |-> 4250, city_rate |-> 0, special_rate |-> 0, composite_tax_rate |-> 8250],
  [fips |-> "36065", name |-> "Oneida County", state_rate |-> 4000, county_rate |-> 4750, city_rate |-> 0, special_rate |-> 0, composite_tax_rate |-> 8750],
  [fips |-> "36067", name |-> "Onondaga County", state_rate |-> 4000, county_rate |-> 4000, city_rate |-> 0, special_rate |-> 0, composite_tax_rate |-> 8000],
  [fips |-> "36053", name |-> "Madison County", state_rate |-> 4000, county_rate |-> 4000, city_rate |-> 0, special_rate |-> 0, composite_tax_rate |-> 8000],
  [fips |-> "36055", name |-> "Monroe County", state_rate |-> 4000, county_rate |-> 4000, city_rate |-> 0, special_rate |-> 0, composite_tax_rate |-> 8000],
  [fips |-> "36011", name |-> "Cayuga County", state_rate |-> 4000, county_rate |-> 4000, city_rate |-> 0, special_rate |-> 0, composite_tax_rate |-> 8000],
  [fips |-> "36099", name |-> "Seneca County", state_rate |-> 4000, county_rate |-> 4000, city_rate |-> 0, special_rate |-> 0, composite_tax_rate |-> 8000],
  [fips |-> "36109", name |-> "Tompkins County", state_rate |-> 4000, county_rate |-> 4000, city_rate |-> 0, special_rate |-> 0, composite_tax_rate |-> 8000],
  [fips |-> "36107", name |-> "Tioga County", state_rate |-> 4000, county_rate |-> 4000, city_rate |-> 0, special_rate |-> 0, composite_tax_rate |-> 8000],
  [fips |-> "36007", name |-> "Broome County", state_rate |-> 4000, county_rate |-> 4000, city_rate |-> 0, special_rate |-> 0, composite_tax_rate |-> 8000],
  [fips |-> "36023", name |-> "Cortland County", state_rate |-> 4000, county_rate |-> 4000, city_rate |-> 0, special_rate |-> 0, composite_tax_rate |-> 8000],
  [fips |-> "36095", name |-> "Schoharie County", state_rate |-> 4000, county_rate |-> 4000, city_rate |-> 0, special_rate |-> 0, composite_tax_rate |-> 8000],
  [fips |-> "36097", name |-> "Schuyler County", state_rate |-> 4000, county_rate |-> 4000, city_rate |-> 0, special_rate |-> 0, composite_tax_rate |-> 8000],
  [fips |-> "36101", name |-> "Steuben County", state_rate |-> 4000, county_rate |-> 4000, city_rate |-> 0, special_rate |-> 0, composite_tax_rate |-> 8000],
  [fips |-> "36009", name |-> "Cattaraugus County", state_rate |-> 4000, county_rate |-> 5000, city_rate |-> 0, special_rate |-> 0, composite_tax_rate |-> 9000],
  [fips |-> "36003", name |-> "Allegany County", state_rate |-> 4000, county_rate |-> 4500, city_rate |-> 0, special_rate |-> 0, composite_tax_rate |-> 8500],
  [fips |-> "36051", name |-> "Livingston County", state_rate |-> 4000, county_rate |-> 4000, city_rate |-> 0, special_rate |-> 0, composite_tax_rate |-> 8000],
  [fips |-> "36069", name |-> "Ontario County", state_rate |-> 4000, county_rate |-> 4000, city_rate |-> 0, special_rate |-> 0, composite_tax_rate |-> 8000],
  [fips |-> "36117", name |-> "Wayne County", state_rate |-> 4000, county_rate |-> 4000, city_rate |-> 0, special_rate |-> 0, composite_tax_rate |-> 8000],
  [fips |-> "36123", name |-> "Yates County", state_rate |-> 4000, county_rate |-> 4000, city_rate |-> 0, special_rate |-> 0, composite_tax_rate |-> 8000],
  [fips |-> "36029", name |-> "Erie County", state_rate |-> 4000, county_rate |-> 4750, city_rate |-> 0, special_rate |-> 0, composite_tax_rate |-> 8750],
  [fips |-> "36063", name |-> "Niagara County", state_rate |-> 4000, county_rate |-> 4750, city_rate |-> 0, special_rate |-> 0, composite_tax_rate |-> 8750],
  [fips |-> "36015", name |-> "Chemung County", state_rate |-> 4000, county_rate |-> 4000, city_rate |-> 0, special_rate |-> 0, composite_tax_rate |-> 8000],
  [fips |-> "36013", name |-> "Chautauqua County", state_rate |-> 4000, county_rate |-> 4000, city_rate |-> 0, special_rate |-> 0, composite_tax_rate |-> 8000],
  [fips |-> "36017", name |-> "Chenango County", state_rate |-> 4000, county_rate |-> 4000, city_rate |-> 0, special_rate |-> 0, composite_tax_rate |-> 8000],
  [fips |-> "36025", name |-> "Delaware County", state_rate |-> 4000, county_rate |-> 4000, city_rate |-> 0, special_rate |-> 0, composite_tax_rate |-> 8000],
  [fips |-> "36037", name |-> "Genesee County", state_rate |-> 4000, county_rate |-> 4000, city_rate |-> 0, special_rate |-> 0, composite_tax_rate |-> 8000],
  [fips |-> "36073", name |-> "Orleans County", state_rate |-> 4000, county_rate |-> 4000, city_rate |-> 0, special_rate |-> 0, composite_tax_rate |-> 8000],
  [fips |-> "36075", name |-> "Oswego County", state_rate |-> 4000, county_rate |-> 4000, city_rate |-> 0, special_rate |-> 0, composite_tax_rate |-> 8000],
  [fips |-> "36105", name |-> "Sullivan County", state_rate |-> 4000, county_rate |-> 4000, city_rate |-> 0, special_rate |-> 0, composite_tax_rate |-> 8000],
  [fips |-> "36121", name |-> "Wyoming County", state_rate |-> 4000, county_rate |-> 4000, city_rate |-> 0, special_rate |-> 0, composite_tax_rate |-> 8000]
}

FALLBACK_RATE_StateOnly ==
    [name |-> "New York State (fallback)", state_rate |-> 4000,
     county_rate |-> 4000, city_rate |-> 0, special_rate |-> 0,
     composite_tax_rate |-> 4000]

FALLBACK_RATE ==
    [name |-> "New York State (fallback)", state_rate |-> 4000,
     county_rate |-> 4000, city_rate |-> 0, special_rate |-> 0,
     composite_tax_rate |-> 8000]

\* what the Census geocoder call can come back with: a county code of the
\* table, a county code outside it, or no result (error, timeout, non-OK)
NoCensus == "none"
CensusOutcomes == {"36061", "34003", NoCensus}

\* how a geocoder call can end.  Before the response headers: the network
\* fails, the timer aborts the fetch, or the response is not OK.  After
\* them: reading the body fails, the body is no JSON, it lists no county,
\* or it lists a county code.
FetchEnds == {"network_error", "timeout", "not_ok"}
BodyEnds == {"read_error", "bad_json", "no_counties", "36061", "34003"}

\* resolveFipsFromCensus: the county code, or null from every other path
resolveFipsFromCensus(end) ==
    IF end \in {"36061", "34003"} THEN end ELSE NoCensus

resolveJurisdictionZeroRate(census) ==
    IF census # NoCensus /\ \E r \in NY_COUNTY_RATES : r.fips = census
    THEN LET rate == CHOOSE r \in NY_COUNTY_RATES : r.fips = census
         IN  [name |-> rate.name, state_rate |-> rate.state_rate,
              county_rate |-> rate.county_rate, city_rate |-> rate.city_rate,
              special_rate |-> rate.special_rate,
              composite_tax_rate |-> rate.composite_tax_rate,
              county_fips |-> census]
    ELSE [name |-> "unknown", state_rate |-> 0, county_rate |-> 0,
          city_rate |-> 0, special_rate |-> 0, composite_tax_rate |-> 0,
          county_fips |-> IF census = NoCensus THEN Null ELSE census]

\* resolveJurisdiction, given the outcome of resolveFipsFromCensus
resolveJurisdiction(census) ==
    IF census # NoCensus /\ \E r \in NY_COUNTY_RATES : r.fips = census
    THEN LET rate == CHOOSE r \in NY_COUNTY_RATES : r.fips = census
         IN  [name |-> rate.name, state_rate |-> rate.state_rate,
              county_rate |-> rate.county_rate, city_rate |-> rate.city_rate,
              special_rate |-> rate.special_rate,
              composite_tax_rate |-> rate.composite_tax_rate,
              county_fips |-> census]
    ELSE [name |-> FALLBACK_RATE.name, state_rate |-> FALLBACK_RATE.state_rate,
          county_rate |-> FALLBACK_RATE.county_rate,
          city_rate |-> FALLBACK_RATE.city_rate,
          special_rate |-> FALLBACK_RATE.special_rate,
          composite_tax_rate |-> FALLBACK_RATE.composite_tax_rate,
          county_fips |-> Null]

\* IEEE 754 binary64, the Number type: a value is m * 2^e with a mantissa m
\* of 53 bits (or zero).  Mantissas and intermediate results are exact
\* naturals written in limbs of 15 bits, least significant first.
Limb == 2^15

RECURSIVE BigNorm(_)
BigNorm(a) ==
    IF a # <<>> /\ a[Len(a)] = 0 THEN BigNorm(SubSeq(a, 1, Len(a) - 1)) ELSE a

RECURSIVE BigFromInt(_)
BigFromInt(n) == IF n = 0 THEN <<>> ELSE <<n % Limb>> \o BigFromInt(n \div Limb)

RECURSIVE BigToInt(_)
BigToInt(a) == IF a = <<>> THEN 0 ELSE Head(a) + Limb * BigToInt(Tail(a))

RECURSIVE BigAddC(_, _, _)
BigAddC(a, b, c) ==
    IF a = <<>> /\ b = <<>> THEN (IF c = 0 THEN <<>> ELSE <<c>>)
    ELSE LET x == (IF a = <<>> THEN 0 ELSE Head(a))
                  + (IF b = <<>> THEN 0 ELSE Head(b)) + c
         IN  <<x % Limb>> \o BigAddC(IF a = <<>> THEN a ELSE Tail(a),
                                     IF b = <<>> THEN b ELSE Tail(b),
                                     x \div Limb)

BigAdd(a, b) == BigAddC(a, b, 0)

RECURSIVE BigMulSmall(_, _, _)
BigMulSmall(a, k, c) ==
    IF a = <<>> THEN (IF c = 0 THEN <<>> ELSE <<c>>)
    ELSE LET x == Head(a) * k + c
         IN  <<x % Limb>> \o BigMulSmall(Tail(a), k, x \div Limb)

RECURSIVE BigMulRaw(_, _)
BigMulRaw(a, b) ==
    IF b = <<>> THEN <<>>
    ELSE BigAdd(BigMulSmall(a, Head(b), 0), <<0>> \o BigMulRaw(a, Tail(b)))

BigMul(a, b) == BigNorm(BigMulRaw(a, b))

RECURSIVE BigDivRem(_, _)
BigDivRem(a, d) ==
    IF a = <<>> THEN [q |-> <<>>, r |-> 0]
    ELSE LET hi == BigDivRem(Tail(a), d)
             x == hi.r * Limb + Head(a)
         IN  [q |-> <<x \div d>> \o hi.q, r |-> x % d]

BigShl(a, n) ==
    IF a = <<>> THEN a
    ELSE [k \in 1..(n \div 15) |-> 0] \o BigMulSmall(a, 2^(n % 15), 0)

BigShr(a, n) ==
    IF n \div 15 >= Len(a) THEN <<>>
    ELSE BigNorm(BigDivRem(SubSeq(a, (n \div 15) + 1, Len(a)), 2^(n % 15)).q)

RECURSIVE BitLenSmall(_)
BitLenSmall(x) == IF x = 0 THEN 0 ELSE 1 + BitLenSmall(x \div 2)

BitLen(a) == IF a = <<>> THEN 0 ELSE 15 * (Len(a) - 1) + BitLenSmall(a[Len(a)])

BigOdd(a) == a # <<>> /\ Head(a) % 2 = 1

\* the double nearest to N * 2^e (plus, if sticky, a fraction of its last
\* place), ties to even
\* q1 is the mantissa after rounding: it may have grown to 54 bits
DoubleRounded(q1, e) ==
    IF BitLen(q1) = 54 THEN [m |-> BigShr(q1, 1), e |-> e + 1]
    ELSE [m |-> q1, e |-> e]

\* q2 is N without its last shift - 1 bits, q is q2 without its last bit,
\* st tells whether anything nonzero lies below the last bit of q2
DoubleRound(q2, q, st, e) ==
    DoubleRounded(IF BigOdd(q2) /\ (st \/ BigOdd(q))
                  THEN BigAdd(q, <<1>>) ELSE q, e)

DoubleHalf(N, q2, shift, e, sticky) ==
    DoubleRound(q2, BigShr(q2, 1), sticky \/ BigShl(q2, shift - 1) # N,
                e + shift)

\* L is the number of bits of N
DoubleOfLen(N, L, e, sticky) ==
    IF L <= 53 THEN [m |-> BigShl(N, 53 - L), e |-> e - (53 - L)]
    ELSE DoubleHalf(N, BigShr(N, L - 54), L - 53, e, sticky)

Double(N, e, sticky) ==
    IF N = <<>> THEN [m |-> <<>>, e |-> 0]
    ELSE DoubleOfLen(N, BitLen(N), e, sticky)

RECURSIVE DivAll(_, _)
DivAll(a, ds) ==
    IF ds = <<>> THEN [q |-> a, exact |-> TRUE]
    ELSE LET one == BigDivRem(a, Head(ds))
             rest == DivAll(BigNorm(one.q), Tail(ds))
         IN  [q |-> rest.q, exact |-> one.r = 0 /\ rest.exact]

\* the double nearest to n / (ds[1] * ds[2] * ...): what a decimal literal
\* or parseFloat of a decimal string evaluates to
DoubleOfQuotient(d) == Double(d.q, 0 - 75, ~d.exact)

ToDouble(n, ds) == DoubleOfQuotient(DivAll(BigShl(BigFromInt(n), 75), ds))

\* x * y and x + y of two doubles
DMul(x, y) == Double(BigMul(x.m, y.m), x.e + y.e, FALSE)

DAddAt(x, y, e) ==
    Double(BigAdd(BigShl(x.m, x.e - e), BigShl(y.m, y.e - e)), e, FALSE)

DAdd(x, y) ==
    IF x.m = <<>> THEN y ELSE IF y.m = <<>> THEN x
    ELSE DAddAt(x, y, IF x.e < y.e THEN x.e ELSE y.e)

\* Math.round: the integer nearest to x, halves up
MathRound(x) ==
    IF x.m = <<>> THEN 0
    ELSE IF x.e >= 0 THEN BigToInt(BigShl(x.m, x.e))
    ELSE BigToInt(BigShr(BigAdd(BigShl(x.m, 1), BigShl(<<1>>, 0 - x.e)),
                         1 - x.e))

\* Math.round of -x for a double x > 0, without its sign: a half goes up,
\* towards zero
MathRoundNeg(x) ==
    IF x.m = <<>> THEN 0
    ELSE IF x.e >= 0 THEN BigToInt(BigShl(x.m, x.e))
    ELSE IF BigShl(BigShr(BigAdd(BigShl(x.m, 1), BigShl(<<1>>, 0 - x.e)),
                          1 - x.e), 1 - x.e)
                = BigAdd(BigShl(x.m, 1), BigShl(<<1>>, 0 - x.e))
    THEN MathRound(x) - 1
    ELSE MathRound(x)

\* Math.round of x, or of -x: products and sums of doubles of one sign are
\* those of their magnitudes
MathRoundSigned(neg, x) == IF neg THEN 0 - MathRoundNeg(x) ELSE MathRound(x)

Magnitude(n) == IF n < 0 THEN 0 - n ELSE n

\* Math.round(subtotal * rate * 100) / 100, subtotal and result in units
\* of 10^-4 and rate in units of 10^-5
RoundTax(subtotal, rate) ==
    MathRoundSigned(subtotal < 0,
        DMul(DMul(ToDouble(Magnitude(subtotal), <<Scale>>),
                  ToDouble(rate, <<Scale, 10>>)),
             ToDouble(100, <<>>))) * (Scale \div 100)

\* Math.round((subtotal + tax_amount) * 100) / 100 in the same units; the
\* tax amount has the sign of the subtotal, or is zero
RoundTotal(subtotal, tax_amount) ==
    MathRoundSigned(subtotal < 0,
        DMul(DAdd(ToDouble(Magnitude(subtotal), <<Scale>>),
                  ToDouble(Magnitude(tax_amount) \div (Scale \div 100),
                           <<100>>)),
             ToDouble(100, <<>>))) * (Scale \div 100)

\* the two amounts of a breakdown
WithTotal(subtotal, tax_amount) ==
    [tax_amount |-> tax_amount,
     total_amount |-> RoundTotal(subtotal, tax_amount)]

ComputeAmounts(subtotal, rate) ==
    WithTotal(subtotal, RoundTax(subtotal, rate))

\* the subtotals and rates that occur most, with their amounts worked out
\* once
KnownSubtotals == {1200000, 120000, 53030, 18125, 625, 100}
KnownRates == {8875, 8625, 8000}
KnownAmounts ==
    [subtotal \in KnownSubtotals, rate \in KnownRates |->
        ComputeAmounts(subtotal, rate)]

Amounts(subtotal, rate) ==
    IF subtotal \in KnownSubtotals /\ rate \in KnownRates
    THEN KnownAmounts[subtotal, rate]
    ELSE ComputeAmounts(subtotal, rate)

\* calculateTax, given the outcome of the geocoder call
TaxBreakdown(jurisdiction, amounts) ==
    [tax_region |-> jurisdiction.name,
     county_fips |-> jurisdiction.county_fips,
     state_rate |-> jurisdiction.state_rate,
     county_rate |-> jurisdiction.county_rate,
     city_rate |-> jurisdiction.city_rate,
     special_rate |-> jurisdiction.special_rate,
     composite_tax_rate |-> jurisdiction.composite_tax_rate,
     tax_amount |-> amounts.tax_amount,
     total_amount |-> amounts.total_amount]

TaxOfJurisdiction(subtotal, jurisdiction) ==
    TaxBreakdown(jurisdiction,
                 Amounts(subtotal, jurisdiction.composite_tax_rate))

calculateTax(subtotal, census) ==
    TaxOfJurisdiction(subtotal, resolveJurisdiction(census))

----------------------------------------------------------------------------
(* index.ts: the bounding-box resolver and its calculateTax *)

\* an argument that is not passed
Undefined == 0 - 2^28

JURISDICTIONS == <<
  [name |-> "New York City (Manhattan)", state_rate |-> 4000, county_rate |-> 4500, city_rate |-> 375, special_rate |-> 0, composite_tax_rate |-> 8875, minLat |-> 407000, maxLat |-> 408820, minLon |-> 0 - 740200, maxLon |-> 0 - 739070],
  [name |-> "New York City (Brooklyn)", state_rate |-> 4000, county_rate |-> 4500, city_rate |-> 375, special_rate |-> 0, composite_tax_rate |-> 8875, minLat |-> 405510, maxLat |-> 407400, minLon |-> 0 - 740420, maxLon |-> 0 - 738330],
  [name |-> "New York City (Queens)", state_rate |-> 4000, county_rate |-> 4500, city_rate |-> 375, special_rate |-> 0, composite_tax_rate |-> 8875, minLat |-> 405410, maxLat |-> 408000, minLon |-> 0 - 739620, maxLon |-> 0 - 737000],
  [name |-> "New York City (Bronx)", state_rate |-> 4000, county_rate |-> 4500, city_rate |-> 375, special_rate |-> 0, composite_tax_rate |-> 8875, minLat |-> 407850, maxLat |-> 409160, minLon |-> 0 - 739330, maxLon |-> 0 - 737650],
  [name |-> "New York City (Staten Island)", state_rate |-> 4000, county_rate |-> 4500, city_rate |-> 375, special_rate |-> 0, composite_tax_rate |-> 8875, minLat |-> 404770, maxLat |-> 406510, minLon |-> 0 - 742590, maxLon |-> 0 - 740340],
  [name |-> "Nassau County", state_rate |-> 4000, county_rate |-> 4250, city_rate |-> 375, special_rate |-> 0, composite_tax_rate |-> 8625, minLat |-> 405400, maxLat |-> 407600, minLon |-> 0 - 737600, maxLon |-> 0 - 734300],
  [name |-> "Suffolk County", state_rate |-> 4000, county_rate |-> 4250, city_rate |-> 375, special_rate |-> 0, composite_tax_rate |-> 8625, minLat |-> 406000, maxLat |-> 411000, minLon |-> 0 - 734300, maxLon |-> 0 - 718000],
  [name |-> "Westchester County", state_rate |-> 4000, county_rate |-> 4000, city_rate |-> 375, special_rate |-> 0, composite_tax_rate |-> 8375, minLat |-> 408820, maxLat |-> 413670, minLon |-> 0 - 740200, maxLon |-> 0 - 734830],
  [name |-> "Rockland County", state_rate |-> 4000, county_rate |-> 4000, city_rate |-> 375, special_rate |-> 0, composite_tax_rate |-> 8375, minLat |-> 410000, maxLat |-> 413000, minLon |-> 0 - 742300, maxLon |-> 0 - 738930],
  [name |-> "Orange County", state_rate |-> 4000, county_rate |-> 3750, city_rate |-> 0, special_rate |-> 0, composite_tax_rate |-> 7750, minLat |-> 412000, maxLat |-> 417000, minLon |-> 0 - 747600, maxLon |-> 0 - 740000],
  [name |-> "Dutchess County", state_rate |-> 4000, county_rate |-> 3750, city_rate |-> 0, special_rate |-> 0, composite_tax_rate |-> 7750, minLat |-> 414800, maxLat |-> 420500, minLon |-> 0 - 739400, maxLon |-> 0 - 734800],
  [name |-> "Ulster County", state_rate |-> 4000, county_rate |-> 3750, city_rate |-> 0, special_rate |-> 0, composite_tax_rate |-> 7750, minLat |-> 416000, maxLat |-> 422300, minLon |-> 0 - 747900, maxLon |-> 0 - 739400],
  [name |-> "Albany County", state_rate |-> 4000, county_rate |-> 4000, city_rate |-> 0, special_rate |-> 0, composite_tax_rate |-> 8000, minLat |-> 423500, maxLat |-> 428300, minLon |-> 0 - 742700, maxLon |-> 0 - 736800],
  [name |-> "Schenectady County", state_rate |-> 4000, county_rate |-> 4000, city_rate |-> 0, special_rate |-> 0, composite_tax_rate |-> 8000, minLat |-> 426800, maxLat |-> 430000, minLon |-> 0 - 743700, maxLon |-> 0 - 738300],
  [name |-> "Saratoga County", state_rate |-> 4000, county_rate |-> 3000, city_rate |-> 0, special_rate |-> 0, composite_tax_rate |-> 7000, minLat |-> 428500, maxLat |-> 435500, minLon |-> 0 - 741600, maxLon |-> 0 - 734800],
  [name |-> "Erie County", state_rate |-> 4000, county_rate |-> 4750, city_rate |-> 0, special_rate |-> 0, composite_tax_rate |-> 8750, minLat |-> 424400, maxLat |-> 430900, minLon |-> 0 - 797600, maxLon |-> 0 - 784600],
  [name |-> "Monroe County", state_rate |-> 4000, county_rate |-> 4000, city_rate |-> 0, special_rate |-> 0, composite_tax_rate |-> 8000, minLat |-> 430500, maxLat |-> 433700, minLon |-> 0 - 779900, maxLon |-> 0 - 773700],
  [name |-> "Onondaga County", state_rate |-> 4000, county_rate |-> 4000, city_rate |-> 0, special_rate |-> 0, composite_tax_rate |-> 8000, minLat |-> 427700, maxLat |-> 432700, minLon |-> 0 - 764700, maxLon |-> 0 - 758900],
  [name |-> "Niagara County", state_rate |-> 4000, county_rate |-> 4750, city_rate |-> 0, special_rate |-> 0, composite_tax_rate |-> 8750, minLat |-> 430900, maxLat |-> 433800, minLon |-> 0 - 791000, maxLon |-> 0 - 784600],
  [name |-> "Broome County", state_rate |-> 4000, county_rate |-> 4000, city_rate |-> 0, special_rate |-> 0, composite_tax_rate |-> 8000, minLat |-> 420000, maxLat |-> 425000, minLon |-> 0 - 761300, maxLon |-> 0 - 753000],
  [name |-> "Chemung County", state_rate |-> 4000, county_rate |-> 4000, city_rate |-> 0, special_rate |-> 0, composite_tax_rate |-> 8000, minLat |-> 420000, maxLat |-> 423000, minLon |-> 0 - 770000, maxLon |-> 0 - 765300],
  [name |-> "Chautauqua County", state_rate |-> 4000, county_rate |-> 4000, city_rate |-> 0, special_rate |-> 0, composite_tax_rate |-> 8000, minLat |-> 420000, maxLat |-> 425700, minLon |-> 0 - 797600, maxLon |-> 0 - 790500],
  [name |-> "Cattaraugus County", state_rate |-> 4000, county_rate |-> 5000, city_rate |-> 0, special_rate |-> 0, composite_tax_rate |-> 9000, minLat |-> 420000, maxLat |-> 425300, minLon |-> 0 - 790500, maxLon |-> 0 - 783000],
  [name |-> "Allegany County", state_rate |-> 4000, county_rate |-> 4500, city_rate |-> 0, special_rate |-> 0, composite_tax_rate |-> 8500, minLat |-> 420000, maxLat |-> 425300, minLon |-> 0 - 783000, maxLon |-> 0 - 777200],
  [name |-> "Steuben County", state_rate |-> 4000, county_rate |-> 4000, city_rate |-> 0, special_rate |-> 0, composite_tax_rate |-> 8000, minLat |-> 420000, maxLat |-> 426600, minLon |-> 0 - 777200, maxLon |-> 0 - 770000]
>>

DEFAULT_JURISDICTION ==
    [name |-> "New York State", state_rate |-> 4000, county_rate |-> 4000,
     city_rate |-> 0, special_rate |-> 0, composite_tax_rate |-> 8000]

InBox(j, lat, lon) ==
    /\ lat >= j.minLat
    /\ lat <= j.maxLat
    /\ lon >= j.minLon
    /\ lon <= j.maxLon

RECURSIVE FirstBoxFrom(_, _, _)
\* the for-loop of getJurisdiction from entry k on
FirstBoxFrom(k, lat, lon) ==
    IF k > Len(JURISDICTIONS) THEN DEFAULT_JURISDICTION
    ELSE IF InBox(JURISDICTIONS[k], lat, lon) THEN JURISDICTIONS[k]
    ELSE FirstBoxFrom(k + 1, lat, lon)

RECURSIVE LastBoxFrom(_, _, _)
LastBoxFrom(k, lat, lon) ==
    IF k = 0 THEN DEFAULT_JURISDICTION
    ELSE IF InBox(JURISDICTIONS[k], lat, lon) THEN JURISDICTIONS[k]
    ELSE LastBoxFrom(k - 1, lat, lon)

getJurisdictionLast(lat, lon) == LastBoxFrom(Len(JURISDICTIONS), lat, lon)

getJurisdiction(lat, lon) == FirstBoxFrom(1, lat, lon)

BreakdownOf(j, amounts) ==
    [tax_region |-> j.name,
     state_rate |-> j.state_rate, county_rate |-> j.county_rate,
     city_rate |-> j.city_rate, special_rate |-> j.special_rate,
     composite_tax_rate |-> j.composite_tax_rate,
     tax_amount |-> amounts.tax_amount,
     total_amount |-> amounts.total_amount]

Breakdown(subtotal, j) ==
    BreakdownOf(j, Amounts(subtotal, j.composite_tax_rate))

calculateTaxStatewide(subtotal, lat, lon) ==
    Breakdown(subtotal, DEFAULT_JURISDICTION)

\* calculateTax of index.ts
calculateTaxByBox(subtotal, lat, lon) ==
    Breakdown(subtotal,
              IF lat # Undefined /\ lon # Undefined
              THEN getJurisdiction(lat, lon)
              ELSE DEFAULT_JURISDICTION)

\* coordinates and subtotals the function is called with: a point in the
\* boxes of Manhattan and Brooklyn, a corner shared by Manhattan and
\* Westchester, a point in Nassau, a point in no box, a point outside the
\* state, and no coordinates
CalcPoints ==
    {<<407128, 0 - 740060>>, <<408820, 0 - 739070>>, <<407000, 0 - 736000>>,
     <<440000, 0 - 750000>>, <<100000, 0 - 740060>>, <<Undefined, Undefined>>}

CalcSubtotals == {1200000, 120000, 53030, 18125, 625, 100}

\* a call of calculateTax(subtotal, null, lat, lon)
Calculate(subtotal, lat, lon) ==
    /\ calc' = [pc |-> "returned", subtotal |-> subtotal, lat |-> lat,
                lon |-> lon,
                result |-> calculateTaxByBox(subtotal, lat, lon)]
    /\ UNCHANGED <<orders, importSessions, stream, sync, cancelReply, manual,
                   running, now, rowids>>

----------------------------------------------------------------------------
(* Uploaded files: sequences of rows with string fields *)

Row(id, lat, lon, sub, ts) ==
    [id |-> id, latitude |-> lat, longitude |-> lon, subtotal |-> sub,
     timestamp |-> ts]

LatManhattan == <<"4", "0", ".", "7", "1", "2", "8">>
LonManhattan == <<"-", "7", "4", ".", "0", "0", "6", "0">>

RowA == Row(<<"1">>, LatManhattan, LonManhattan,
            <<"1", "2", "0", ".", "0", "0">>, "2026-01-01T10:00:00Z")
RowB == Row(<<"2">>, LatManhattan, LonManhattan,
            <<"1", "2", "0", ".", "0", "0">>, "")
RowNeg == Row(<<"2">>, LatManhattan, LonManhattan, <<"-", "5">>, "")

\* a latitude that is no number, and a point far south of the state
RowBadLat == Row(<<"1">>, <<"a", "b", "c">>, LonManhattan,
                 <<"1", "2", "0", ".", "0", "0">>, "")
RowOutside == Row(<<"2">>, <<"1", "0", ".", "0">>, LonManhattan,
                  <<"1", "2", "0", ".", "0", "0">>, "")

RowKinds == {RowA, RowB, RowNeg}

RECURSIVE SeqsUpTo(_, _)
\* all sequences over S of length 0..n
SeqsUpTo(S, n) ==
    IF n = 0 THEN {<<>>}
    ELSE LET shorter == SeqsUpTo(S, n - 1)
         IN  shorter \cup {Append(f, x) : f \in shorter, x \in S}

Files == SeqsUpTo(RowKinds, MaxRows)

\* a body field that is absent (undefined or null)
Missing == <<"null">>

\* rows with every combination of a good, an unparseable and an out-of-range
\* value in the three validated fields
LatChoices == {LatManhattan, <<"a", "b", "c">>, <<"1", "0", ".", "0">>}
LonChoices == {LonManhattan, <<"x">>, <<"-", "1", "0", ".", "0">>}
SubChoices == {<<"1", "2", "0", ".", "0", "0">>, <<"a", "b", "c">>, <<"0">>,
               <<"-", "5">>}

ValidationRows ==
    {Row(<<"1">>, lat, lon, sub, "") :
        lat \in LatChoices, lon \in LonChoices, sub \in SubChoices}

ValidationFiles == SeqsUpTo(ValidationRows, 1)

\* request bodies: the same, and bodies with a field absent
ValidationBodies ==
    ValidationRows
        \cup {Row(<<"1">>, Missing, <<"x">>, <<"-", "5">>, ""),
              Row(<<"1">>, <<"a", "b", "c">>, LonManhattan, Missing, "")}

\* rows and bodies with subtotals of two, three and four fractional digits
AmountChoices ==
    {<<"1", "2", "0", ".", "0", "0">>, <<"1", "2", ".", "0", "0">>,
     <<"5", ".", "3", "0", "3">>, <<"1", ".", "8", "1", "2", "5">>}

AmountRows ==
    {Row(<<"1">>, LatManhattan, LonManhattan, sub, "") : sub \in AmountChoices}

AmountFiles == SeqsUpTo(AmountRows, 1)

\* a point of the state for which the geocoder names a county of New Jersey
RowNJ == Row(<<"1">>, <<"4", "1", ".", "0">>, <<"-", "7", "4", ".", "1">>,
             <<"1", "2", "0", ".", "0", "0">>, "")

EquivRows == {RowA, RowB, RowNeg, RowNJ}
EquivFiles == SeqsUpTo(EquivRows, MaxRows)

\* what the geocoder answers for a row, the same whenever it is asked: no
\* answer for the rows with id 2, a county outside the table for RowNJ, and
\* Manhattan otherwise
Geocode(row) ==
    IF row.id = <<"2">> THEN NoCensus
    ELSE IF row = RowNJ THEN "34003"
    ELSE "36061"

\* rows that are acceptable but for their id: none, and not a number
RowNoId == Row(<<>>, LatManhattan, LonManhattan,
               <<"1", "2", "0", ".", "0", "0">>, "")
RowBadId == Row(<<"x">>, LatManhattan, LonManhattan,
                <<"1", "2", "0", ".", "0", "0">>, "")

IdRows == {RowA, RowNoId, RowBadId}
IdFiles == SeqsUpTo(IdRows, MaxRows)

\* two files of two chunks that begin with the same id: the valid rows are
\* the first and the last
RaceFile(last) == <<RowA, RowNeg, RowNeg, RowNeg, RowNeg, last>>
RaceFiles == {RaceFile(RowA), RaceFile(RowB)}

\* files of at most one row
ShortFiles == {f \in Files : Len(f) <= 1}

\* files with every kind of validation failure
FaultyRowKinds == {RowA, RowB, RowNeg, RowBadLat, RowOutside}
FaultyFiles == SeqsUpTo(FaultyRowKinds, MaxRows)

\* files of more than one chunk
LongRowKinds == {RowA, RowNeg}
LongFiles == {f \in SeqsUpTo(LongRowKinds, MaxLongRows) : Len(f) > BATCH_SIZE}

\* files of one chunk, and files of more whose valid rows are among the
\* first two and the last
ChunkFiles ==
    ShortFiles \cup {f \in LongFiles :
                       \A k \in 1..Len(f) : f[k] = RowA => k \in {1, 2, Len(f)}}

\* the readings of the clock, in their order
Times == <<"now", "later">>
NowTs == now

----------------------------------------------------------------------------
(* The per-row task of batch.map(async (row) => ...) *)

Rejected(msg) == [status |-> "rejected", reason |-> msg]

\* res.status(status).json({ error: msg })
ErrorResponse(status, msg) == [status |-> status, error |-> msg]

\* uploads that yield no rows: no file in the request, or a file on which
\* parse throws
BadUploads == {"none", "unparseable"}

UploadError(upload) ==
    IF upload = "none" THEN "No file provided" ELSE "Invalid CSV"

Pending(lat, lon, sub) ==
    [status |-> "pending", lat |-> lat, lon |-> lon, sub |-> sub]

Fulfilled(v) == [status |-> "fulfilled", value |-> v]

StartTaskAcceptsAnySubtotal(row) ==
    LET lat == ParseFloat(row.latitude)
        lon == ParseFloat(row.longitude)
        sub == ParseFloat(row.subtotal)
    IN  IF isNaN(lat) \/ isNaN(lon) \/ isNaN(sub)
        THEN Rejected("Invalid numbers")
        ELSE IF ~isInNewYork(lat, lon)
        THEN Rejected("Coordinates outside New York State")
        ELSE Pending(lat, lon, sub)

StartTaskRegionFirst(row) ==
    LET lat == ParseFloat(row.latitude)
        lon == ParseFloat(row.longitude)
        sub == ParseFloat(row.subtotal)
    IN  IF isNaN(lat) \/ isNaN(lon) \/ isNaN(sub)
        THEN Rejected("Invalid numbers")
        ELSE IF ~isInNewYork(lat, lon)
        THEN Rejected("Coordinates outside New York State")
        ELSE IF sub <= 0 THEN Rejected("subtotal must be positive")
        ELSE Pending(lat, lon, sub)

StartTaskSkipsRegion(row) ==
    LET lat == ParseFloat(row.latitude)
        lon == ParseFloat(row.longitude)
        sub == ParseFloat(row.subtotal)
    IN  IF isNaN(lat) \/ isNaN(lon) \/ isNaN(sub)
        THEN Rejected("Invalid numbers")
        ELSE IF sub <= 0 THEN Rejected("subtotal must be positive")
        ELSE Pending(lat, lon, sub)

\* the synchronous part of the task: parse, validate, issue the lookup
StartTask(row) ==
    LET lat == ParseFloat(row.latitude)
        lon == ParseFloat(row.longitude)
        sub == ParseFloat(row.subtotal)
    IN  IF isNaN(lat) \/ isNaN(lon) \/ isNaN(sub)
        THEN Rejected("Invalid numbers")
        ELSE IF sub <= 0 THEN Rejected("subtotal must be positive")
        ELSE IF ~isInNewYork(lat, lon)
        THEN Rejected("Coordinates outside New York State")
        ELSE Pending(lat, lon, sub)

\* the rest of the task, once calculateTax has returned
FinishTaskAt(row, task, census, time) ==
    Fulfilled([csvId |-> ParseInt(row.id),
               lat |-> task.lat, lon |-> task.lon,
               ts |-> IF row.timestamp # "" THEN row.timestamp ELSE time,
               tax |-> calculateTax(task.sub, census)])

FinishTask(row, task, census) == FinishTaskAt(row, task, census, NowTs)

\* rows.slice(i, i + BATCH_SIZE), i counted from 0
Slice(rows, i) ==
    SubSeq(rows, i + 1, IF i + BATCH_SIZE < Len(rows) THEN i + BATCH_SIZE
                        ELSE Len(rows))

StartBatchReversed(rows, i) ==
    LET batch == Slice(rows, i)
    IN  [k \in 1..Len(batch) |-> StartTask(batch[Len(batch) + 1 - k])]

\* batch.map(...): every task of the chunk is started in row order
StartBatch(rows, i) ==
    LET batch == Slice(rows, i)
    IN  [k \in 1..Len(batch) |-> StartTask(batch[k])]

AllSettledFirst(results) ==
    results = <<>> \/ results[1].status # "pending"

\* Promise.allSettled resolves when no task of the chunk is pending
AllSettled(results) ==
    \A k \in 1..Len(results) : results[k].status # "pending"

----------------------------------------------------------------------------
(* db.ts and the SQL statements of orders.ts *)

RECURSIVE SetMax(_)
SetMax(S) ==
    IF S = {} THEN 0
    ELSE LET x == CHOOSE x \in S : TRUE
             m == SetMax(S \ {x})
         IN  IF x > m THEN x ELSE m

\* SELECT MAX(id) FROM orders, 0 for an empty table
getMaxId(tbl) == SetMax(DOMAIN tbl)

ExistsNever(tbl, csvId) == FALSE

\* SELECT id FROM orders WHERE id = ?   (a NaN parameter is bound as NULL
\* and matches no row)
Exists(tbl, csvId) == csvId # NaN /\ csvId \in DOMAIN tbl

OrderFields(row, v) ==
    [latitude |-> v.lat, longitude |-> v.lon,
     subtotal |-> ParseFloat(row.subtotal), timestamp |-> v.ts,
     tax_region |-> v.tax.tax_region, county_fips |-> v.tax.county_fips,
     state_rate |-> v.tax.state_rate, county_rate |-> v.tax.county_rate,
     city_rate |-> v.tax.city_rate, special_rate |-> v.tax.special_rate,
     composite_tax_rate |-> v.tax.composite_tax_rate,
     tax_amount |-> v.tax.tax_amount, total_amount |-> v.tax.total_amount]

WithTag(fields, tag) ==
    [k \in DOMAIN fields \cup {"import_session_id"} |->
        IF k = "import_session_id" THEN tag ELSE fields[k]]

UpdateOrderLosesTag(tbl, csvId, row, v) ==
    [tbl EXCEPT ![csvId] = WithTag(OrderFields(row, v), Null)]

\* UPDATE orders SET <every column but import_session_id> WHERE id = ?
UpdateOrder(tbl, csvId, row, v) ==
    [tbl EXCEPT ![csvId] =
        WithTag(OrderFields(row, v), tbl[csvId].import_session_id)]

InsertOrderUntagged(tbl, csvId, row, v, tag) ==
    [k \in DOMAIN tbl \cup {csvId} |->
        IF k = csvId THEN WithTag(OrderFields(row, v), Null) ELSE tbl[k]]

\* INSERT INTO orders (id, ..., import_session_id); a NULL id takes the
\* next rowid
InsertOrder(tbl, csvId, row, v, tag) ==
    LET id == IF csvId = NaN THEN getMaxId(tbl) + 1 ELSE csvId
    IN  [k \in DOMAIN tbl \cup {id} |->
            IF k = id THEN WithTag(OrderFields(row, v), tag) ELSE tbl[k]]

UpsertRetags(tbl, csvId, row, v, tag) == InsertOrder(tbl, csvId, row, v, tag)

\* the existence check and the write that follows it
Upsert(tbl, csvId, row, v, tag) ==
    IF Exists(tbl, csvId)
    THEN UpdateOrder(tbl, csvId, row, v)
    ELSE InsertOrder(tbl, csvId, row, v, tag)

CountAll(tbl, tag) == Cardinality(DOMAIN tbl)

\* SELECT COUNT(*) FROM orders WHERE import_session_id = ?
CountTagged(tbl, tag) ==
    Cardinality({k \in DOMAIN tbl : tbl[k].import_session_id = tag})

DeleteAll(tbl, tag) == <<>>

\* DELETE FROM orders WHERE import_session_id = ?
DeleteTagged(tbl, tag) ==
    [k \in {x \in DOMAIN tbl : tbl[x].import_session_id # tag} |-> tbl[k]]

----------------------------------------------------------------------------
(* POST /orders/import/stream *)

\* send(data): res.write of JSON.stringify(data)
Json(x) == IF x = NaN THEN JsonNull ELSE x

SessionEvent(s) == [type |-> "session", sessionId |-> s]

\* files of about MaxErrors rows, each with its row number as id, all with
\* a subtotal below zero but for those in good
DecimalDigits == <<"0", "1", "2", "3", "4", "5", "6", "7", "8", "9">>

Numeral(k) ==
    IF k < 10 THEN <<DecimalDigits[k + 1]>>
    ELSE <<DecimalDigits[(k \div 10) + 1], DecimalDigits[(k % 10) + 1]>>

BigFile(n, good) ==
    [k \in 1..n |->
        Row(Numeral(k), LatManhattan, LonManhattan,
            IF k \in good THEN <<"1", "2", "0", ".", "0", "0">>
            ELSE <<"-", "5">>, "")]

BigFiles ==
    {<<>>, <<RowA>>, <<RowNeg>>}
        \cup {BigFile(n, good) :
                 n \in (MaxErrors - 1)..MaxBigRows,
                 good \in {{}, {1}, {MaxErrors}}}

ProgressEventBeforeIncrement(n, id) ==
    [type |-> "progress", processed |-> n - 1, id |-> Json(id)]

ProgressEvent(n, id) == [type |-> "progress", processed |-> n, id |-> Json(id)]

DoneEventCountsProcessed(success, failed) ==
    [type |-> "done", success |-> Len(success) + Len(failed),
     failed |-> Len(failed), errors |-> failed]

DoneEventSwapped(success, failed) ==
    [type |-> "done", success |-> Len(failed), failed |-> Len(success),
     errors |-> failed]

DoneEventLastErrors(success, failed) ==
    [type |-> "done", success |-> Len(success), failed |-> Len(failed),
     errors |-> SubSeq(failed,
                       IF Len(failed) < MaxErrors THEN 1
                       ELSE Len(failed) - MaxErrors + 1, Len(failed))]

DoneEvent(success, failed) ==
    [type |-> "done", success |-> Len(success), failed |-> Len(failed),
     errors |-> SubSeq(failed, 1, IF Len(failed) < MaxErrors THEN Len(failed)
                                  ELSE MaxErrors)]
CancelledEvent(count) == [type |-> "cancelled", rolledBack |-> count]

NoStream ==
    [pc |-> "idle", rows |-> <<>>, i |-> 0, j |-> 0, results |-> <<>>,
     success |-> <<>>, failed |-> <<>>, processed |-> 0,
     cancelRequested |-> FALSE, out |-> <<>>]

\* lines 96-121: the parsed rows, the locals, the registry entry and the
\* session event
StreamStart(s, file) ==
    /\ running = Idle
    /\ stream[s].pc = "idle"
    /\ stream' = [stream EXCEPT ![s] =
            [NoStream EXCEPT !.pc = "loop", !.rows = file,
                             !.out = <<SessionEvent(s)>>]]
    /\ importSessions' = importSessions \cup {s}
    /\ running' = s
    /\ UNCHANGED <<orders, sync, cancelReply, manual, now, calc, rowids>>

StreamRejectsAfterRegistering(s, upload) ==
    /\ running = Idle
    /\ stream[s].pc = "idle"
    /\ stream' = [stream EXCEPT ![s] =
            [NoStream EXCEPT !.pc = "rejected", !.out = <<SessionEvent(s)>>]
                @@ [response |-> ErrorResponse(400, UploadError(upload))]]
    /\ importSessions' = importSessions \cup {s}
    /\ UNCHANGED <<orders, sync, cancelReply, running, manual, now, calc, rowids>>

\* lines 94-101: the request carries no file, or parse throws; the handler
\* answers 400 and returns
StreamRejects(s, upload) ==
    /\ running = Idle
    /\ stream[s].pc = "idle"
    /\ stream' = [stream EXCEPT ![s] =
            [NoStream EXCEPT !.pc = "rejected"]
                @@ [response |-> ErrorResponse(400, UploadError(upload))]]
    /\ UNCHANGED <<orders, importSessions, sync, cancelReply, running, manual, now, calc, rowids>>

\* line 124: if (cancelRequested) break
CancelObservedNever(h) == FALSE

CancelObserved(h) == h.cancelRequested

\* lines 123-141: the loop test, the cancellation check, and the start of
\* the chunk's tasks up to the await.  The handler gives up the event loop
\* while a geocoder call is outstanding; when every task of the chunk was
\* rejected by validation the await completes in the same turn.
StreamLoop(s) ==
    LET h == stream[s]
        results == StartBatch(h.rows, h.i)
    IN  /\ running = s
        /\ h.pc = "loop"
        /\ IF h.i < Len(h.rows) /\ ~CancelObserved(h)
           THEN /\ stream' = [stream EXCEPT ![s] =
                       [h EXCEPT !.pc = IF AllSettled(results) THEN "write"
                                        ELSE "await",
                                 !.j = 0, !.results = results]]
                /\ running' = IF AllSettled(results) THEN s ELSE Idle
           ELSE /\ stream' = [stream EXCEPT ![s] = [h EXCEPT !.pc = "finish"]]
                /\ running' = s
        /\ UNCHANGED <<orders, importSessions, sync, cancelReply, manual, now, calc, rowids>>

\* one geocoder call of the chunk comes back and its task completes
StreamSettle(s, k, census) ==
    LET h == stream[s]
    IN  /\ running = Idle
        /\ h.pc = "await"
        /\ k \in 1..Len(h.results)
        /\ h.results[k].status = "pending"
        /\ stream' = [stream EXCEPT ![s] = [h EXCEPT !.results[k] =
                FinishTask(h.rows[h.i + k], h.results[k], census)]]
        /\ UNCHANGED <<orders, importSessions, sync, cancelReply, running, manual, now, calc, rowids>>

StreamResumeYields(s) ==
    LET h == stream[s]
    IN  /\ running = Idle
        /\ h.pc = "await"
        /\ AllSettled(h.results)
        /\ stream' = [stream EXCEPT ![s] = [h EXCEPT !.pc = "write"]]
        /\ UNCHANGED <<orders, importSessions, sync, cancelReply, running, manual, now, calc, rowids>>

\* Promise.allSettled resolves and the handler continues
StreamResume(s) ==
    LET h == stream[s]
    IN  /\ running = Idle
        /\ h.pc = "await"
        /\ AllSettled(h.results)
        /\ stream' = [stream EXCEPT ![s] = [h EXCEPT !.pc = "write"]]
        /\ running' = s
        /\ UNCHANGED <<orders, importSessions, sync, cancelReply, manual, now, calc, rowids>>

\* lines 143-185: one iteration of the write loop; after the last one the
\* outer loop advances
StreamWrite(s) ==
    LET h == stream[s]
        result == h.results[h.j + 1]
        row == h.rows[h.i + h.j + 1]
        ok == result.status = "fulfilled"
        last == h.j + 1 = Len(h.results)
    IN  /\ running = s
        /\ h.pc = "write"
        /\ orders' = IF ok
                     THEN Upsert(orders, result.value.csvId, row, result.value, s)
                     ELSE orders
        /\ stream' = [stream EXCEPT ![s] =
              [h EXCEPT
                !.success = IF ok
                            THEN Append(@, [id |-> result.value.csvId,
                                            original_id |-> row.id])
                            ELSE @,
                !.failed = IF ok THEN @
                           ELSE Append(@, [original_id |-> row.id,
                                           error |-> result.reason]),
                !.processed = @ + 1,
                !.out = Append(@, ProgressEvent(h.processed + 1,
                                  IF ok THEN result.value.csvId ELSE NaN)),
                !.j = @ + 1,
                !.i = IF last THEN @ + BATCH_SIZE ELSE @,
                !.pc = IF last THEN "loop" ELSE "write"]]
        /\ UNCHANGED <<importSessions, sync, cancelReply, running, manual, now, calc, rowids>>

\* line 201: importSessions.delete(sessionId)
SessionsDeleteSkipped(registry, s) == registry

SessionsDelete(registry, s) == registry \ {s}

\* lines 188-202: rollback and the cancelled event, or the done event; the
\* registry entry is removed and the response ends
StreamFinish(s) ==
    LET h == stream[s]
    IN  /\ running = s
        /\ h.pc = "finish"
        /\ IF h.cancelRequested
           THEN /\ orders' = DeleteTagged(orders, s)
                /\ stream' = [stream EXCEPT ![s] =
                      [h EXCEPT !.pc = "ended",
                          !.out = Append(@, CancelledEvent(CountTagged(orders, s)))]]
           ELSE /\ orders' = orders
                /\ stream' = [stream EXCEPT ![s] =
                      [h EXCEPT !.pc = "ended",
                          !.out = Append(@, DoneEvent(h.success, h.failed))]]
        /\ importSessions' = SessionsDelete(importSessions, s)
        /\ running' = Idle
        /\ UNCHANGED <<sync, cancelReply, manual, now, calc, rowids>>

\* runQuery throws inside the write loop (db.run rejects the statement, or
\* persist cannot write the file after db.run has applied it).  Nothing
\* catches it: the handler's promise rejects, the rest of the handler never
\* runs, and the response stays open.
StreamWriteFails(s, applied) ==
    LET h == stream[s]
        result == h.results[h.j + 1]
        row == h.rows[h.i + h.j + 1]
    IN  /\ running = s
        /\ h.pc = "write"
        /\ result.status = "fulfilled"
        /\ orders' = IF applied
                     THEN Upsert(orders, result.value.csvId, row, result.value, s)
                     ELSE orders
        /\ stream' = [stream EXCEPT ![s] = [h EXCEPT !.pc = "crashed"]]
        /\ running' = Idle
        /\ UNCHANGED <<importSessions, sync, cancelReply, manual, now, calc, rowids>>

\* runQuery throws in the rollback's DELETE
StreamFinishFails(s, applied) ==
    LET h == stream[s]
    IN  /\ running = s
        /\ h.pc = "finish"
        /\ h.cancelRequested
        /\ orders' = IF applied THEN DeleteTagged(orders, s) ELSE orders
        /\ stream' = [stream EXCEPT ![s] = [h EXCEPT !.pc = "crashed"]]
        /\ running' = Idle
        /\ UNCHANGED <<importSessions, sync, cancelReply, manual, now, calc, rowids>>

----------------------------------------------------------------------------
(* POST /orders/import/cancel *)

UnknownSession == "s0"

NoReply == [sessionId |-> Null, status |-> 0]

CancelCommandToggles(sessionId) ==
    /\ running = Idle
    /\ IF sessionId \in importSessions
       THEN /\ stream' = [stream EXCEPT ![sessionId].cancelRequested = ~@]
            /\ cancelReply' = [sessionId |-> sessionId, status |-> 200]
       ELSE /\ stream' = stream
            /\ cancelReply' = [sessionId |-> sessionId, status |-> 404]
    /\ running' = "cancel"
    /\ UNCHANGED <<orders, importSessions, sync, manual, now, calc, rowids>>

CancelCommandAll(sessionId) ==
    /\ running = Idle
    /\ IF sessionId \in importSessions
       THEN /\ stream' = [s \in Sessions |->
                             IF s \in importSessions
                             THEN [stream[s] EXCEPT !.cancelRequested = TRUE]
                             ELSE stream[s]]
            /\ cancelReply' = [sessionId |-> sessionId, status |-> 200]
       ELSE /\ stream' = stream
            /\ cancelReply' = [sessionId |-> sessionId, status |-> 404]
    /\ running' = "cancel"
    /\ UNCHANGED <<orders, importSessions, sync, manual, now, calc, rowids>>

\* lines 289-293: the lookup in the registry, the call of the session's
\* cancel function, and the response
CancelCommand(sessionId) ==
    /\ running = Idle
    /\ IF sessionId \in importSessions
       THEN /\ stream' = [stream EXCEPT ![sessionId].cancelRequested = TRUE]
            /\ cancelReply' = [sessionId |-> sessionId, status |-> 200]
       ELSE /\ stream' = stream
            /\ cancelReply' = [sessionId |-> sessionId, status |-> 404]
    /\ running' = "cancel"
    /\ UNCHANGED <<orders, importSessions, sync, manual, now, calc, rowids>>

\* the cancel request is over once its response has been sent
CancelReturn ==
    /\ running = "cancel"
    /\ cancelReply' = NoReply
    /\ running' = Idle
    /\ UNCHANGED <<orders, importSessions, stream, sync, manual, now, calc, rowids>>

----------------------------------------------------------------------------
(* POST /orders/import *)

NoSync ==
    [pc |-> "idle", rows |-> <<>>, i |-> 0, j |-> 0, results |-> <<>>,
     success |-> <<>>, failed |-> <<>>, response |-> [type |-> "none"]]

\* lines 206-216; a further import may be uploaded once the previous one has
\* been answered
SyncStart(file) ==
    /\ running = Idle
    /\ sync.pc \in {"idle", "ended"}
    /\ sync' = [NoSync EXCEPT !.pc = "loop", !.rows = file]
    /\ running' = "sync"
    /\ UNCHANGED <<orders, importSessions, stream, cancelReply, manual, now, calc, rowids>>

\* lines 207-214: the request carries no file, or parse throws
SyncRejects(upload) ==
    /\ running = Idle
    /\ sync.pc \in {"idle", "ended"}
    /\ sync' = [NoSync EXCEPT !.pc = "ended",
                   !.response = ErrorResponse(400, UploadError(upload))]
    /\ UNCHANGED <<orders, importSessions, stream, cancelReply, running, manual, now, calc, rowids>>

\* lines 223-239
SyncLoop ==
    LET results == StartBatch(sync.rows, sync.i)
    IN
    /\ running = "sync"
    /\ sync.pc = "loop"
    /\ IF sync.i < Len(sync.rows)
       THEN /\ sync' = [sync EXCEPT !.pc = IF AllSettled(results) THEN "write"
                                           ELSE "await",
                                    !.j = 0, !.results = results]
            /\ running' = IF AllSettled(results) THEN "sync" ELSE Idle
       ELSE /\ sync' = [sync EXCEPT !.pc = "finish"]
            /\ running' = "sync"
    /\ UNCHANGED <<orders, importSessions, stream, cancelReply, manual, now, calc, rowids>>

SyncSettle(k, census) ==
    /\ running = Idle
    /\ sync.pc = "await"
    /\ k \in 1..Len(sync.results)
    /\ sync.results[k].status = "pending"
    /\ sync' = [sync EXCEPT !.results[k] =
            FinishTask(sync.rows[sync.i + k], sync.results[k], census)]
    /\ UNCHANGED <<orders, importSessions, stream, cancelReply, running, manual, now, calc, rowids>>

\* The geocoder call of a task in its phases.  A task that has been started
\* is in the fetch with its timer armed and no time elapsed.
Call(task) ==
    IF "phase" \in DOMAIN task THEN task
    ELSE task @@ [phase |-> "fetch", elapsed |-> 0]

\* a second passes for the call of task k.  The timer goes off at Timeout,
\* so the fetch is never seen later than that; once the timer is cleared
\* nothing bounds the wait.
SyncLookupTick(k) ==
    /\ running = Idle
    /\ sync.pc = "await"
    /\ k \in 1..Len(sync.results)
    /\ sync.results[k].status = "pending"
    /\ LET call == Call(sync.results[k])
       IN  /\ call.elapsed < MaxClock
           /\ call.phase = "fetch" => call.elapsed < Timeout
           /\ sync' = [sync EXCEPT !.results[k] =
                           [call EXCEPT !.elapsed = @ + 1]]
    /\ UNCHANGED <<orders, importSessions, stream, cancelReply, running, manual, now, calc, rowids>>

\* tax.ts 226-231: fetch resolves with an OK response, the timer is
\* cleared, and the body is awaited
SyncLookupResponds(k) ==
    /\ running = Idle
    /\ sync.pc = "await"
    /\ k \in 1..Len(sync.results)
    /\ sync.results[k].status = "pending"
    /\ LET call == Call(sync.results[k])
       IN  /\ call.phase = "fetch"
           /\ sync' = [sync EXCEPT !.results[k] =
                           [call EXCEPT !.phase = "body"]]
    /\ UNCHANGED <<orders, importSessions, stream, cancelReply, running, manual, now, calc, rowids>>

\* the call ends and the task completes with what calculateTax makes of it
SyncLookupEnds(k, end) ==
    /\ running = Idle
    /\ sync.pc = "await"
    /\ k \in 1..Len(sync.results)
    /\ sync.results[k].status = "pending"
    /\ LET call == Call(sync.results[k])
       IN  /\ end \in FetchEnds => call.phase = "fetch"
           /\ end \in BodyEnds => call.phase = "body"
           /\ end = "timeout" => call.elapsed = Timeout
           /\ sync' = [sync EXCEPT !.results[k] =
                  FinishTask(sync.rows[sync.i + k], call,
                             resolveFipsFromCensus(end))]
    /\ UNCHANGED <<orders, importSessions, stream, cancelReply, running, manual, now, calc, rowids>>

SyncResume ==
    /\ running = Idle
    /\ sync.pc = "await"
    /\ AllSettled(sync.results)
    /\ sync' = [sync EXCEPT !.pc = "write"]
    /\ running' = "sync"
    /\ UNCHANGED <<orders, importSessions, stream, cancelReply, manual, now, calc, rowids>>

\* lines 242-281
SyncWrite ==
    LET result == sync.results[sync.j + 1]
        row == sync.rows[sync.i + sync.j + 1]
        ok == result.status = "fulfilled"
        last == sync.j + 1 = Len(sync.results)
    IN  /\ running = "sync"
        /\ sync.pc = "write"
        /\ orders' = IF ok
                     THEN Upsert(orders, result.value.csvId, row, result.value, Null)
                     ELSE orders
        /\ sync' = [sync EXCEPT
                !.success = IF ok
                            THEN Append(@, [id |-> result.value.csvId,
                                            original_id |-> row.id])
                            ELSE @,
                !.failed = IF ok THEN @
                           ELSE Append(@, [original_id |-> row.id,
                                           error |-> result.reason]),
                !.j = @ + 1,
                !.i = IF last THEN @ + BATCH_SIZE ELSE @,
                !.pc = IF last THEN "loop" ELSE "write"]
        /\ UNCHANGED <<importSessions, stream, cancelReply, running, manual, now, calc, rowids>>

\* line 284
SyncFinish ==
    /\ running = "sync"
    /\ sync.pc = "finish"
    /\ sync' = [sync EXCEPT !.pc = "ended",
                            !.response = DoneEvent(sync.success, sync.failed)]
    /\ running' = Idle
    /\ UNCHANGED <<orders, importSessions, stream, cancelReply, manual, now, calc, rowids>>

\* runQuery throws inside the write loop: no response is sent
SyncWriteFails(applied) ==
    LET result == sync.results[sync.j + 1]
        row == sync.rows[sync.i + sync.j + 1]
    IN  /\ running = "sync"
        /\ sync.pc = "write"
        /\ result.status = "fulfilled"
        /\ orders' = IF applied
                     THEN Upsert(orders, result.value.csvId, row, result.value, Null)
                     ELSE orders
        /\ sync' = [sync EXCEPT !.pc = "crashed"]
        /\ running' = Idle
        /\ UNCHANGED <<importSessions, stream, cancelReply, manual, now, calc, rowids>>

----------------------------------------------------------------------------
(* POST /orders: manual creation *)

NoManual ==
    [pc |-> "idle", body |-> Row(Missing, Missing, Missing, Missing, ""),
     response |-> [status |-> 0]]

\* lines 58-65: the checks of the body in their order; 0 when all pass
ManualCheck(body) ==
    LET lat == ParseFloat(body.latitude)
        lon == ParseFloat(body.longitude)
        sub == ParseFloat(body.subtotal)
    IN  IF Missing \in {body.latitude, body.longitude, body.subtotal}
        THEN ErrorResponse(400,
                 "Missing required fields: latitude, longitude, subtotal")
        ELSE IF isNaN(lat) \/ isNaN(lon) \/ isNaN(sub)
        THEN ErrorResponse(400, "Invalid numbers")
        ELSE IF sub <= 0 THEN ErrorResponse(400, "subtotal must be positive")
        ELSE IF ~isInNewYork(lat, lon)
        THEN ErrorResponse(422, "Coordinates outside New York State")
        ELSE [status |-> 0]

\* lines 57-67: the request is answered with an error, or the handler waits
\* for calculateTax.  At most MaxId orders are created by hand.
ManualStart(body) ==
    /\ running = Idle
    /\ manual.pc \in {"idle", "ended"}
    /\ getMaxId(orders) < MaxId
    /\ manual' = IF ManualCheck(body).status = 0
                  THEN [pc |-> "await", body |-> body,
                        response |-> [status |-> 0]]
                  ELSE [pc |-> "ended", body |-> body,
                        response |-> ManualCheck(body)]
    /\ UNCHANGED <<orders, importSessions, stream, sync, cancelReply, running, now, calc, rowids>>

\* lines 67-87: calculateTax has returned; the id is taken from the table
\* as it is now, the order is inserted untagged and returned
ManualFinish(census) ==
    LET body == manual.body
        v == [lat |-> ParseFloat(body.latitude),
              lon |-> ParseFloat(body.longitude),
              ts |-> IF body.timestamp # "" THEN body.timestamp ELSE NowTs,
              tax |-> calculateTax(ParseFloat(body.subtotal), census)]
        newId == getMaxId(orders) + 1
    IN  /\ running = Idle
        /\ manual.pc = "await"
        /\ orders' = InsertOrder(orders, newId, body, v, Null)
        /\ manual' = [manual EXCEPT !.pc = "ended",
                          !.response = [status |-> 201, id |-> newId]]
        /\ UNCHANGED <<importSessions, stream, sync, cancelReply, running, now, calc, rowids>>

----------------------------------------------------------------------------
(* POST /orders/rollback and DELETE /orders *)

\* lines 297-305: DELETE FROM orders WHERE id IN (ids)
RollbackIds(ids) ==
    /\ running = Idle
    /\ ids # {}
    /\ orders' = [k \in DOMAIN orders \ ids |-> orders[k]]
    /\ UNCHANGED <<importSessions, stream, sync, cancelReply, manual, running, now, calc, rowids>>

\* lines 308-311: DELETE FROM orders
ClearOrders ==
    /\ running = Idle
    /\ orders' = <<>>
    /\ UNCHANGED <<importSessions, stream, sync, cancelReply, manual, running, now, calc, rowids>>

----------------------------------------------------------------------------

(* The id column at full width.  sql.js binds a Number as a double and     *)
(* reads an INTEGER column back as a double; the ids of the table are      *)
(* naturals written in limbs.                                              *)

MaxRowids == 3

RECURSIVE BigFromDigits(_, _)
\* the natural written by the first n decimal digits of s
BigFromDigits(s, n) ==
    IF n = 0 THEN <<>>
    ELSE BigMulSmall(BigFromDigits(s, n - 1), 10, DigitVal(s[n]))

RECURSIVE BigLess(_, _)
\* a < b, for a and b of equal length or without leading zero limbs
BigLess(a, b) ==
    IF Len(a) # Len(b) THEN Len(a) < Len(b)
    ELSE IF a = <<>> THEN FALSE
    ELSE IF a[Len(a)] # b[Len(b)] THEN a[Len(a)] < b[Len(b)]
    ELSE BigLess(SubSeq(a, 1, Len(a) - 1), SubSeq(b, 1, Len(b) - 1))

RECURSIVE BigMax(_)
BigMax(S) ==
    IF S = {} THEN <<>>
    ELSE LET x == CHOOSE x \in S : TRUE
             m == BigMax(S \ {x})
         IN  IF BigLess(m, x) THEN x ELSE m

\* the integer that an integer-valued double stands for: the rowid that
\* SQLite stores for it
BigOfDouble(x) ==
    IF x.m = <<>> THEN <<>>
    ELSE IF x.e >= 0 THEN BigNorm(BigShl(x.m, x.e))
    ELSE BigShr(x.m, 0 - x.e)

\* orders.ts line 137: parseInt of a run of digits is the Number nearest to
\* the integer they write
parseIntWide(s) == Double(BigFromDigits(s, DigitRun(s, 1)), 0, FALSE)

\* db.ts lines 72-75: MAX(id) comes back as a Number, 0 for an empty table
getMaxIdWide(ids) == Double(BigMax(ids), 0, FALSE)

\* orders.ts line 69: getMaxId() + 1, an addition of Numbers
newIdWide(ids) == DAdd(getMaxIdWide(ids), Double(<<1>>, 0, FALSE))

\* 2^53 - 2 ... 2^53 + 2 in decimal, and a small id
WideDigits ==
    <<"9", "0", "0", "7", "1", "9", "9", "2", "5", "4", "7", "4", "0", "9", "9">>

WideIds == {<<"1">>} \cup {WideDigits \o <<d>> : d \in {"0", "1", "2", "3", "4"}}

NoRowids == [ids |-> {}, pc |-> "idle", maxId |-> <<>>, newId |-> <<>>]

\* orders.ts lines 137, 153-176: the write of an imported row; the UPDATE
\* leaves the id column as it is, the INSERT adds the id
ImportRowid(id) ==
    \E rowid \in {BigOfDouble(parseIntWide(id))} :
        /\ Cardinality(rowids.ids \cup {rowid}) <= MaxRowids
        /\ rowids' = [rowids EXCEPT !.ids = @ \cup {rowid}]
        /\ UNCHANGED <<orders, importSessions, stream, sync, cancelReply,
                       manual, running, now, calc>>

\* orders.ts lines 69-81: the id is made and the INSERT runs; it fails on
\* the PRIMARY KEY (db.ts line 22) when the id is in the table
CreateRowid ==
    \E newId \in {BigOfDouble(newIdWide(rowids.ids))} :
        /\ Cardinality(rowids.ids) < MaxRowids
        /\ rowids' = [ids |-> rowids.ids \cup {newId},
                      pc |-> IF newId \in rowids.ids
                             THEN "failed" ELSE "created",
                      maxId |-> BigMax(rowids.ids),
                      newId |-> newId]
        /\ UNCHANGED <<orders, importSessions, stream, sync, cancelReply,
                       manual, running, now, calc>>

----------------------------------------------------------------------------

NoCalc == [pc |-> "idle"]

Init ==
    /\ now = Times[1]
    /\ calc = NoCalc
    /\ rowids = NoRowids
    /\ orders = <<>>
    /\ importSessions = {}
    /\ stream = [s \in Sessions |-> NoStream]
    /\ sync = NoSync
    /\ cancelReply = NoReply
    /\ manual = NoManual
    /\ running = Idle

\* initDb when the database file exists: the table holds what earlier runs
\* left in it, here one untagged order
LoadedOrders ==
    InsertOrder(<<>>, 2, RowB,
                FinishTaskAt(RowB, StartTask(RowB), NoCensus, Times[1]).value,
                Null)

InitLoaded ==
    /\ now = Times[1]
    /\ calc = NoCalc
    /\ rowids = NoRowids
    /\ orders = LoadedOrders
    /\ importSessions = {}
    /\ stream = [s \in Sessions |-> NoStream]
    /\ sync = NoSync
    /\ cancelReply = NoReply
    /\ manual = NoManual
    /\ running = Idle

SeedTwice(v) ==
    InsertOrder(InsertOrder(<<>>, 2, RowA, v, Null), 9, RowA, v, Null)

\* a table left by earlier non-streaming imports: orders 2 and 9
SeededOrders ==
    SeedTwice(FinishTaskAt(RowA, StartTask(RowA), NoCensus, Times[1]).value)

InitSeeded ==
    /\ now = Times[1]
    /\ calc = NoCalc
    /\ rowids = NoRowids
    /\ orders = SeededOrders
    /\ importSessions = {}
    /\ stream = [s \in Sessions |-> NoStream]
    /\ sync = NoSync
    /\ cancelReply = NoReply
    /\ manual = NoManual
    /\ running = Idle

\* time passes: the clock shows its next reading
Tick ==
    /\ now = Times[1]
    /\ now' = Times[2]
    /\ UNCHANGED <<orders, importSessions, stream, sync, cancelReply, manual,
                   running, calc, rowids>>

StreamNext(S, F) ==
    \/ \E s \in S, file \in F : StreamStart(s, file)
    \/ \E s \in S : StreamLoop(s)
    \/ \E s \in S, k \in 1..BATCH_SIZE, census \in CensusOutcomes :
          StreamSettle(s, k, census)
    \/ \E s \in S : StreamResume(s)
    \/ \E s \in S : StreamWrite(s)
    \/ \E s \in S : StreamFinish(s)

CancelNext(S) ==
    \/ \E sessionId \in S : CancelCommand(sessionId)
    \/ CancelReturn

SyncNext(F) ==
    \/ \E file \in F : SyncStart(file)
    \/ SyncLoop
    \/ \E k \in 1..BATCH_SIZE, census \in CensusOutcomes : SyncSettle(k, census)
    \/ SyncResume
    \/ SyncWrite
    \/ SyncFinish

\* two concurrent streaming imports and the cancel command
Next == StreamNext(Sessions, Files) \/ CancelNext(Sessions)

Spec == (Init \/ InitLoaded) /\ [][Next]_vars

\* one streaming import and synchronous imports, never cancelled
NextMixed == StreamNext({"s1"}, Files) \/ SyncNext(Files)

SpecMixed == Init /\ [][NextMixed]_vars

\* the same over files with every kind of validation failure
NextFaulty == StreamNext({"s1"}, FaultyFiles) \/ SyncNext(FaultyFiles)

SpecFaulty == Init /\ [][NextFaulty]_vars

ManualNext(B) ==
    \/ \E body \in B : ManualStart(body)
    \/ \E census \in CensusOutcomes : ManualFinish(census)

DeleteNext ==
    \/ \E ids \in SUBSET (1..MaxId) : RollbackIds(ids)
    \/ ClearOrders

\* two streaming imports, manual creation and the two deletions
NextStore ==
    \/ StreamNext(Sessions, ShortFiles)
    \/ ManualNext({RowA})
    \/ DeleteNext

SpecStore == Init /\ [][NextStore]_vars

\* a streaming and a synchronous import of one or two chunks
NextChunks == StreamNext({"s1"}, ChunkFiles) \/ SyncNext(ChunkFiles)

SpecChunks == Init /\ [][NextChunks]_vars

\* imports of uploads that may be missing or unparseable
UploadErrorNext(S) ==
    \/ \E s \in S, upload \in BadUploads : StreamRejects(s, upload)
    \/ \E upload \in BadUploads : SyncRejects(upload)

NextParse ==
    \/ StreamNext({"s1"}, Files)
    \/ SyncNext(Files)
    \/ UploadErrorNext({"s1"})

SpecParse == Init /\ [][NextParse]_vars

\* synchronous imports and manual creations of rows of every validation
\* class
NextValidate == SyncNext(ValidationFiles) \/ ManualNext(ValidationBodies)

SpecValidate == Init /\ [][NextValidate]_vars

\* imports of files with more failures than a report lists
NextBig ==
    \/ StreamNext({"s1"}, BigFiles)
    \/ SyncNext(BigFiles)

SpecBig == Init /\ [][NextBig]_vars

\* one import, streaming or not, of a file on an empty or a seeded table, at
\* one time or another, with the geocoder answering by Geocode
StreamAlone(s) ==
    \/ \E file \in EquivFiles : StreamStart(s, file)
    \/ StreamLoop(s)
    \/ \E k \in 1..Len(stream[s].results) :
          StreamSettle(s, k, Geocode(stream[s].rows[stream[s].i + k]))
    \/ StreamResume(s)
    \/ StreamWrite(s)
    \/ StreamFinish(s)

SyncAlone ==
    \/ sync.pc = "idle" /\ \E file \in EquivFiles : SyncStart(file)
    \/ SyncLoop
    \/ \E k \in 1..Len(sync.results) :
          SyncSettle(k, Geocode(sync.rows[sync.i + k]))
    \/ SyncResume
    \/ SyncWrite
    \/ SyncFinish

NextEquiv ==
    \/ sync.pc = "idle" /\ StreamAlone("s1")
    \/ stream["s1"].pc = "idle" /\ SyncAlone
    \/ Tick

SpecEquiv == (Init \/ InitSeeded) /\ [][NextEquiv]_vars

\* one import, streaming or not, of a file of more than one chunk
NextBatch ==
    \/ sync.pc = "idle" /\ StreamNext({"s1"}, LongFiles)
    \/ stream["s1"].pc = "idle" /\ SyncNext(LongFiles)

SpecBatch == Init /\ [][NextBatch]_vars

\* one import, streaming or not, of rows with and without a usable id
NextIds ==
    \/ sync.pc = "idle" /\ StreamNext({"s1"}, IdFiles)
    \/ stream["s1"].pc = "idle" /\ sync.pc # "ended" /\ SyncNext(IdFiles)

SpecIds == Init /\ [][NextIds]_vars

\* two streaming imports of files that share an id, and the cancel command
NextRace == StreamNext(Sessions, RaceFiles) \/ CancelNext(Sessions)

SpecRace == Init /\ [][NextRace]_vars

\* manual creations next to one streaming import, and the id column at
\* full width
NextWide ==
    \/ StreamNext({"s1"}, ShortFiles)
    \/ ManualNext({RowA})
    \/ \E id \in WideIds : ImportRowid(id)
    \/ CreateRowid

SpecWide == Init /\ [][NextWide]_vars

\* a streaming import and manual creations of rows of every validation
\* class
SafeBodies ==
    {RowA, Row(<<"1">>, LatManhattan, LonManhattan, <<"0">>, ""),
     Row(<<"1">>, LatManhattan, <<"-", "1", "0", ".", "0">>,
         <<"1", "2", "0", ".", "0", "0">>, ""),
     Row(<<"1">>, <<"1", "0", ".", "0">>, LonManhattan, <<"-", "5">>, "")}

NextSafe == StreamNext({"s1"}, ValidationFiles) \/ ManualNext(SafeBodies)

SpecSafe == Init /\ [][NextSafe]_vars

\* calls of the bounding-box calculateTax, and synchronous imports with
\* subtotals of several precisions
CalcNext ==
    \E subtotal \in CalcSubtotals, p \in CalcPoints :
        Calculate(subtotal, p[1], p[2])

NextAmounts == CalcNext \/ SyncNext(AmountFiles)

SpecAmounts == Init /\ [][NextAmounts]_vars

\* synchronous imports with the geocoder call in its phases
NextLookup ==
    \/ \E file \in Files : SyncStart(file)
    \/ SyncLoop
    \/ \E k \in 1..BATCH_SIZE : SyncLookupTick(k)
    \/ \E k \in 1..BATCH_SIZE : SyncLookupResponds(k)
    \/ \E k \in 1..BATCH_SIZE, end \in FetchEnds \cup BodyEnds :
          SyncLookupEnds(k, end)
    \/ SyncResume
    \/ SyncWrite
    \/ SyncFinish

SpecLookup == Init /\ [][NextLookup]_vars

\* imports whose store writes can fail
WriteFaultNext(S) ==
    \/ \E s \in S, applied \in BOOLEAN : StreamWriteFails(s, applied)
    \/ \E s \in S, applied \in BOOLEAN : StreamFinishFails(s, applied)
    \/ \E applied \in BOOLEAN : SyncWriteFails(applied)

NextFault ==
    \/ StreamNext({"s1"}, Files)
    \/ CancelNext({"s1"})
    \/ SyncNext(ShortFiles)
    \/ WriteFaultNext({"s1"})

SpecFault == Init /\ [][NextFault]_vars

\* one streaming import whose store writes can fail, cancelled at most once.
\* The event loop runs every callback that is ready, and every lookup
\* returns.
CancelOnce(s) ==
    /\ s \in importSessions
    /\ ~stream[s].cancelRequested
    /\ CancelCommand(s)

NextFaultFair ==
    \/ StreamNext({"s1"}, Files)
    \/ CancelOnce("s1")
    \/ CancelReturn
    \/ \E applied \in BOOLEAN : StreamWriteFails("s1", applied)
    \/ \E applied \in BOOLEAN : StreamFinishFails("s1", applied)

Progress ==
    /\ WF_vars(StreamLoop("s1"))
    /\ WF_vars(\E k \in 1..BATCH_SIZE, census \in CensusOutcomes :
                  StreamSettle("s1", k, census))
    /\ WF_vars(StreamResume("s1"))
    /\ WF_vars(StreamWrite("s1"))
    /\ WF_vars(StreamFinish("s1"))
    /\ WF_vars(CancelReturn)

SpecFaultFair == Init /\ [][NextFaultFair]_vars /\ Progress

\* one streaming import of more than one chunk and the cancel command
NextLong ==
    StreamNext({"s1"}, LongFiles) \/ CancelNext({"s1", UnknownSession})

SpecLong == Init /\ [][NextLong]_vars

----------------------------------------------------------------------------
(* Properties *)

Out(s) == stream[s].out
Last(seq) == seq[Len(seq)]
IsTerminal(e) == e.type \in {"done", "cancelled"}
Ended(s) == stream[s].pc = "ended"
EndedAs(s, type) == Ended(s) /\ Last(Out(s)).type = type
Count(seq, T(_)) == Cardinality({k \in 1..Len(seq) : T(seq[k])})
IsProgress(e) == e.type = "progress"
IsProgressOfSuccess(e) == e.type = "progress" /\ e.id # JsonNull
IsProgressOfFailure(e) == e.type = "progress" /\ e.id = JsonNull
IsPrefix(a, b) == Len(a) <= Len(b) /\ a = SubSeq(b, 1, Len(a))
Min(a, b) == IF a < b THEN a ELSE b

\* rows of the model's files that pass validation, and the message of the
\* others
RowIsValid(row) == row \in {RowA, RowB}
ExpectedError(row) ==
    CASE row = RowNeg -> "subtotal must be positive"
      [] row = RowBadLat -> "Invalid numbers"
      [] row = RowOutside -> "Coordinates outside New York State"
      [] OTHER -> Null

\* C1: the events of a streaming import are one session event, then progress
\* events numbered 1, 2, 3, ... without gap or repeat, then one terminal
\* event at the end of the response; events already sent never change and
\* nothing is sent after the terminal event.
C1_StreamShape(s) ==
    LET o == Out(s)
    IN  /\ (stream[s].pc = "idle") = (o = <<>>)
        /\ o # <<>> => o[1] = SessionEvent(s)
        /\ \A k \in 2..Len(o) :
              \/ o[k].type = "progress" /\ o[k].processed = k - 1
              \/ k = Len(o) /\ IsTerminal(o[k])
        /\ Ended(s) = (o # <<>> /\ IsTerminal(Last(o)))

C1_EventOrder ==
    /\ [](\A s \in Sessions : C1_StreamShape(s))
    /\ [][\A s \in Sessions :
            /\ IsPrefix(Out(s), Out(s)')
            /\ Ended(s) => Out(s)' = Out(s)]_vars

C1_Witness ==
    /\ EndedAs("s1", "done")
    /\ Len(Out("s1")) = MaxLongRows + 2

\* C2 as stated: every ended streaming import of N rows has sent exactly N
\* progress events before its terminal event, and the terminal event carries
\* success and failed counts equal to the numbers of progress events of
\* succeeded and of failed rows.
C2_Original ==
    \A s \in Sessions : Ended(s) =>
        LET o == Out(s)
            e == Last(o)
        IN  /\ Count(o, IsProgress) = Len(stream[s].rows)
            /\ {"success", "failed"} \subseteq DOMAIN e
            /\ e.success = Count(o, IsProgressOfSuccess)
            /\ e.failed = Count(o, IsProgressOfFailure)

\* C2 amended: an import that ends with done has sent exactly N progress
\* events before it and its counts are those of the progress events; an
\* import that ends with cancelled has sent at most N progress events and
\* its terminal event carries the rolledBack count only.
C2_ProgressCounts ==
    \A s \in Sessions : Ended(s) =>
        LET o == Out(s)
            e == Last(o)
        IN  /\ Count(o, IsTerminal) = 1
            /\ e.type = "done" =>
                  /\ Count(o, IsProgress) = Len(stream[s].rows)
                  /\ e.success = Count(o, IsProgressOfSuccess)
                  /\ e.failed = Count(o, IsProgressOfFailure)
            /\ e.type = "cancelled" =>
                  /\ Count(o, IsProgress) <= Len(stream[s].rows)
                  /\ DOMAIN e = {"type", "rolledBack"}

C2_Witness ==
    /\ EndedAs("s1", "done")
    /\ Last(Out("s1")).success > 0
    /\ Last(Out("s1")).failed > 0

\* C3 as stated: the terminal event alone determines the session's numbers
\* of succeeded and failed rows: two ended sessions with the same terminal
\* event have the same numbers.
C3_Original ==
    \A s, t \in Sessions :
        (Ended(s) /\ Ended(t) /\ Last(Out(s)) = Last(Out(t))) =>
            /\ Len(stream[s].success) = Len(stream[t].success)
            /\ Len(stream[s].failed) = Len(stream[t].failed)

\* C3 amended: a done event carries the number of rows of the file that
\* passed validation and were written as success and the number of the
\* others as failed; a cancelled event carries the rolledBack count only.
C3_DoneCarriesCounts ==
    \A s \in Sessions : Ended(s) =>
        LET e == Last(Out(s))
            rows == stream[s].rows
        IN  /\ e.type = "done" =>
                  /\ e.success = Count(rows, RowIsValid)
                  /\ e.failed = Len(rows) - Count(rows, RowIsValid)
                  /\ e.success = Len(stream[s].success)
                  /\ e.failed = Len(stream[s].failed)
            /\ e.type = "cancelled" => DOMAIN e = {"type", "rolledBack"}

C3_Witness ==
    /\ EndedAs("s1", "done")
    /\ EndedAs("s2", "cancelled")
    /\ Last(Out("s1")).success = 1
    /\ Last(Out("s1")).failed = 1

\* C4: a cancel command answers 200 exactly when its session is live, that
\* is when the session event has been sent and the terminal event has not;
\* otherwise it answers 404 and changes nothing else.
Live(sessionId) ==
    /\ sessionId \in Sessions
    /\ Out(sessionId) # <<>>
    /\ ~IsTerminal(Last(Out(sessionId)))

C4_CancelReply ==
    [][\A sessionId \in Sessions \cup {UnknownSession} :
          CancelCommand(sessionId) =>
             IF Live(sessionId)
             THEN cancelReply' = [sessionId |-> sessionId, status |-> 200]
             ELSE /\ cancelReply' = [sessionId |-> sessionId, status |-> 404]
                  /\ UNCHANGED <<orders, importSessions, stream, sync, manual, now, calc, rowids>>]_vars

C4_Witness ==
    /\ cancelReply = [sessionId |-> "s1", status |-> 404]
    /\ EndedAs("s1", "cancelled")

\* C5: cancellation takes effect only at a chunk boundary.  A chunk that
\* has been started is carried through: each of its rows is written or
\* recorded as failed and gets its progress event.  Once the switch is set
\* the loop head starts no further chunk.  So at every chunk boundary and at
\* the end the number of progress events is the number of rows of the chunks
\* started, and in a cancelled session it is a positive multiple of the
\* chunk size or the row count.
C5_AtBoundary(s) ==
    LET h == stream[s]
    IN  /\ h.pc \in {"loop", "finish", "ended"} =>
              /\ h.processed = Min(h.i, Len(h.rows))
              /\ Count(h.out, IsProgress) = h.processed
              /\ Len(h.success) + Len(h.failed) = h.processed
        /\ EndedAs(s, "cancelled") =>
              /\ h.processed > 0
              /\ h.processed % BATCH_SIZE = 0 \/ h.processed = Len(h.rows)

C5_Step(s) ==
    LET h == stream[s]
        g == stream'[s]
    IN  /\ (h.cancelRequested /\ h.pc = "loop") =>
              g.pc = "finish" /\ g.results = h.results
        /\ h.pc = "write" =>
              /\ g.pc \in {"write", "loop"}
              /\ g.processed = h.processed + 1
              /\ g.pc = "loop" <=> g.processed = Min(h.i + BATCH_SIZE, Len(h.rows))
        /\ h.pc = "await" => g.pc \in {"await", "write"}
        /\ h.cancelRequested => g.cancelRequested

C5_ChunkBoundary ==
    /\ [](\A s \in Sessions : C5_AtBoundary(s))
    /\ [][\A s \in Sessions : stream'[s] # stream[s] => C5_Step(s)]_vars

C5_Witness ==
    /\ EndedAs("s1", "cancelled")
    /\ Len(stream["s1"].rows) = MaxLongRows
    /\ stream["s1"].processed = BATCH_SIZE

\* C6: when a session ends with a cancelled event no record carries its tag,
\* then and ever after, and rolledBack is the number of records that the
\* rollback removed.
C6_EndsCancelled(s) ==
    /\ stream[s].pc = "finish"
    /\ stream'[s].pc = "ended"
    /\ Last(stream'[s].out).type = "cancelled"

C6_Rollback ==
    /\ [](\A s \in Sessions :
             EndedAs(s, "cancelled") =>
                 \A id \in DOMAIN orders : orders[id].import_session_id # s)
    /\ [][\A s \in Sessions : C6_EndsCancelled(s) =>
             /\ DOMAIN orders' \subseteq DOMAIN orders
             /\ Last(stream'[s].out).rolledBack =
                   Cardinality(DOMAIN orders \ DOMAIN orders')
             /\ \A id \in DOMAIN orders \ DOMAIN orders' :
                   orders[id].import_session_id = s]_vars

C6_Witness ==
    /\ EndedAs("s1", "cancelled")
    /\ Last(Out("s1")).rolledBack = 2
    /\ DOMAIN orders = {}

\* C7: the rollback of a cancelled session leaves every record that does
\* not carry its tag as it is, with the values of the last update and the
\* tag it had; the writes of a session never change the tag of a record that
\* exists.
C7_RollbackFrame ==
    [][/\ \A s \in Sessions : C6_EndsCancelled(s) =>
            \A id \in DOMAIN orders :
                orders[id].import_session_id # s =>
                    id \in DOMAIN orders' /\ orders'[id] = orders[id]
       /\ \A id \in DOMAIN orders \cap DOMAIN orders' :
            orders'[id].import_session_id = orders[id].import_session_id]_vars

\* a record inserted by s2 and updated by s1 is still there, with the tag
\* of s2 and the values s1 wrote, after the rollback of s1
C7_Witness ==
    /\ EndedAs("s1", "cancelled")
    /\ EndedAs("s2", "done")
    /\ Len(stream["s1"].success) = 2
    /\ Last(Out("s1")).rolledBack = 1
    /\ 1 \in DOMAIN orders
    /\ orders[1].import_session_id = "s2"
    /\ stream["s1"].results[1].value.csvId = 1
    /\ orders[1].county_fips = stream["s1"].results[1].value.tax.county_fips
    /\ orders[1].county_fips # stream["s2"].results[1].value.tax.county_fips

\* C8: the write of a resolved row is an upsert by id.  If a record with the
\* id exists it is given the row's values and keeps its tag; otherwise a
\* record with the row's values is added, tagged with the session id by the
\* streaming import and with null by the synchronous import.  No other
\* record changes.
C8_Effect(csvId, row, v, tag) ==
    /\ DOMAIN orders' = DOMAIN orders \cup {csvId}
    /\ \A id \in DOMAIN orders \ {csvId} : orders'[id] = orders[id]
    /\ \A f \in DOMAIN OrderFields(row, v) :
          orders'[csvId][f] = OrderFields(row, v)[f]
    /\ orders'[csvId].import_session_id =
          IF csvId \in DOMAIN orders THEN orders[csvId].import_session_id
          ELSE tag

C8_StreamWrites(s) ==
    LET h == stream[s]
        result == h.results[h.j + 1]
    IN  (running = s /\ h.pc = "write" /\ result.status = "fulfilled") =>
            C8_Effect(result.value.csvId, h.rows[h.i + h.j + 1],
                      result.value, s)

C8_SyncWrites ==
    LET result == sync.results[sync.j + 1]
    IN  (running = "sync" /\ sync.pc = "write" /\ result.status = "fulfilled")
            => C8_Effect(result.value.csvId, sync.rows[sync.i + sync.j + 1],
                         result.value, Null)

C8_Upsert ==
    [][(\A s \in Sessions : C8_StreamWrites(s)) /\ C8_SyncWrites]_vars

\* the streaming import has updated a record that the synchronous import
\* inserted, and has inserted one of its own
C8_Witness ==
    /\ EndedAs("s1", "done")
    /\ DOMAIN orders = {1, 2}
    /\ orders[1].import_session_id = Null
    /\ orders[2].import_session_id = "s1"
    /\ Len(stream["s1"].success) = 2

\* C9: a valid row whose id is already stored, whether by an earlier row of
\* the same file or by an earlier import, adds no record: the stored ids
\* stay the same, the other records stay as they are, and the record itself
\* changes at most in the columns the row supplies (never in its tag).
\* Every id an import counts as a success is the id of a stored record,
\* however many of its rows carried it.
SuccessIds(success) == {success[k].id : k \in 1..Len(success)}

C9_Rewrite(csvId) ==
    csvId \in DOMAIN orders =>
        /\ DOMAIN orders' = DOMAIN orders
        /\ \A id \in DOMAIN orders \ {csvId} : orders'[id] = orders[id]
        /\ orders'[csvId].import_session_id = orders[csvId].import_session_id

C9_Idempotent ==
    /\ [](/\ SuccessIds(sync.success) \subseteq DOMAIN orders
          /\ SuccessIds(stream["s1"].success) \subseteq DOMAIN orders)
    /\ [][/\ \A s \in Sessions :
               (running = s /\ stream[s].pc = "write"
                    /\ stream[s].results[stream[s].j + 1].status = "fulfilled")
               => C9_Rewrite(stream[s].results[stream[s].j + 1].value.csvId)
          /\ (running = "sync" /\ sync.pc = "write"
                    /\ sync.results[sync.j + 1].status = "fulfilled")
               => C9_Rewrite(sync.results[sync.j + 1].value.csvId)]_vars

\* the same row twice in one file and once more in a second import: one
\* record
C9_Witness ==
    /\ sync.pc = "ended"
    /\ sync.rows = <<RowA, RowA>>
    /\ Len(sync.success) = 2
    /\ EndedAs("s1", "done")
    /\ stream["s1"].rows = <<RowA>>
    /\ Len(stream["s1"].success) = 1
    /\ DOMAIN orders = {1}

\* C10: a row that fails validation is recorded in the failed list with its
\* message, writes nothing, and does not stop the import: when the import
\* has ended the failed list holds exactly the invalid rows of the file, in
\* order and with their messages, and the success list exactly the valid
\* ones, each of which was written when its turn came.
RECURSIVE ExpectedFailed(_)
ExpectedFailed(rows) ==
    IF rows = <<>> THEN <<>>
    ELSE LET r == rows[1]
             rest == ExpectedFailed(Tail(rows))
         IN  IF RowIsValid(r) THEN rest
             ELSE <<[original_id |-> r.id, error |-> ExpectedError(r)]>> \o rest

RECURSIVE ExpectedSuccess(_)
ExpectedSuccess(rows) ==
    IF rows = <<>> THEN <<>>
    ELSE LET r == rows[1]
             rest == ExpectedSuccess(Tail(rows))
         IN  IF RowIsValid(r)
             THEN <<[id |-> ParseInt(r.id), original_id |-> r.id]>> \o rest
             ELSE rest

C10_WriteStep(h) ==
    LET result == h.results[h.j + 1]
    IN  IF result.status = "rejected"
        THEN orders' = orders
        ELSE result.value.csvId \in DOMAIN orders'

C10_RowFailure ==
    /\ [](/\ sync.pc = "ended" =>
                /\ sync.failed = ExpectedFailed(sync.rows)
                /\ sync.success = ExpectedSuccess(sync.rows)
                /\ sync.response.failed = Len(sync.failed)
          /\ \A s \in Sessions : EndedAs(s, "done") =>
                /\ stream[s].failed = ExpectedFailed(stream[s].rows)
                /\ stream[s].success = ExpectedSuccess(stream[s].rows)
                /\ Last(Out(s)).errors = stream[s].failed)
    /\ [][/\ \A s \in Sessions :
                (running = s /\ stream[s].pc = "write")
                    => C10_WriteStep(stream[s])
          /\ (running = "sync" /\ sync.pc = "write") => C10_WriteStep(sync)]_vars

\* a file whose first row has subtotal "-5" and whose second row is valid,
\* and a file whose first row has no numeric latitude and whose second row
\* lies outside the state
C10_Witness ==
    /\ sync.pc = "ended"
    /\ sync.rows = <<RowNeg, RowA>>
    /\ sync.response.success = 1
    /\ sync.response.failed = 1
    /\ sync.failed[1].error = "subtotal must be positive"
    /\ EndedAs("s1", "done")
    /\ stream["s1"].rows = <<RowBadLat, RowOutside>>
    /\ Last(Out("s1")).errors =
          <<[original_id |-> <<"1">>, error |-> "Invalid numbers"],
            [original_id |-> <<"2">>,
             error |-> "Coordinates outside New York State"]>>
    /\ DOMAIN orders = {1}

\* C11 as stated: a store write that fails is fatal to its row only.  The
\* row is recorded as failed, the handler goes on with the write loop, the
\* records already written stay, and the import reaches its terminal event
\* or its result.
C11_Original ==
    [][/\ \A s \in Sessions, applied \in BOOLEAN :
            (StreamWriteFails(s, applied) =>
                /\ Len(stream'[s].failed) = Len(stream[s].failed) + 1
                /\ stream'[s].pc \in {"write", "loop"})
       /\ \A done \in BOOLEAN :
            (SyncWriteFails(done) =>
                /\ Len(sync'.failed) = Len(sync.failed) + 1
                /\ sync'.pc \in {"write", "loop"})]_vars

\* C12 as stated: every session that is entered in the registry is
\* eventually removed from it, however its import terminates.
C12_Original ==
    \A s \in Sessions : (s \in importSessions) ~> (s \notin importSessions)

\* C19 as stated: every streaming session that has started eventually ends
\* with a done or a cancelled event, and once it has ended its state never
\* changes again.
C19_Original ==
    /\ \A s \in Sessions : (stream[s].pc # "idle") ~> Ended(s)
    /\ [][\A s \in Sessions : Ended(s) => stream'[s] = stream[s]]_vars

\* C13: store writes are serialized.  At most one handler is inside its
\* write loop at any time, and while a handler is inside its write loop the
\* only change of the table is that handler's upsert of its current row,
\* whose existence check is made on the table as it is in that very step: no
\* write of another import, no manual creation and no deletion comes
\* between them or between two rows of the chunk.
WritersInFlight ==
    {s \in Sessions : stream[s].pc = "write"}
        \cup (IF sync.pc = "write" THEN {"sync"} ELSE {})

C13_OwnWrite(s) ==
    LET h == stream[s]
        result == h.results[h.j + 1]
    IN  /\ stream'[s] # h
        /\ result.status = "fulfilled"
        /\ orders' = IF result.value.csvId \in DOMAIN orders
                     THEN UpdateOrder(orders, result.value.csvId,
                                      h.rows[h.i + h.j + 1], result.value)
                     ELSE InsertOrder(orders, result.value.csvId,
                                      h.rows[h.i + h.j + 1], result.value, s)

C13_Serialized ==
    /\ [](Cardinality(WritersInFlight) <= 1)
    /\ [][\A s \in Sessions : stream[s].pc = "write" =>
             /\ \A t \in Sessions \ {s} : stream'[t] = stream[t]
             /\ manual' = manual
             /\ orders' # orders => C13_OwnWrite(s)]_vars

\* s1 has written its row while the lookups of s2 and of a manual creation
\* are outstanding
C13_Witness ==
    /\ running = "s1"
    /\ stream["s1"].pc = "loop"
    /\ Len(stream["s1"].success) = 1
    /\ stream["s2"].pc = "await"
    /\ manual.pc = "await"
    /\ DOMAIN orders = {1, 2}

\* C14 as stated: an import of N rows that has ended has started
\* ceil(N / BATCH_SIZE) chunks and has made exactly N store writes.
Ceil(n) == (n + BATCH_SIZE - 1) \div BATCH_SIZE

C14_Original ==
    /\ sync.pc = "ended" =>
          /\ sync.i = BATCH_SIZE * Ceil(Len(sync.rows))
          /\ Len(sync.success) = Len(sync.rows)
    /\ \A s \in Sessions : EndedAs(s, "done") =>
          /\ stream[s].i = BATCH_SIZE * Ceil(Len(stream[s].rows))
          /\ Len(stream[s].success) = Len(stream[s].rows)

\* C14 amended: an import of N rows that runs to its end starts
\* ceil(N / BATCH_SIZE) chunks, each of the next BATCH_SIZE rows or of the
\* rows that are left.  The write loop takes the N rows one at a time in
\* the order of the file, whatever the order in which the lookups of a
\* chunk came back: it makes one store write for each row that was
\* resolved and none for a row that was rejected.  A lookup that comes back
\* writes nothing.
C14_Handler(h, g) ==
    /\ (h.pc = "loop" /\ g.pc \in {"await", "write"}) =>
          /\ h.i % BATCH_SIZE = 0
          /\ g.i = h.i
          /\ Len(g.results) = Min(BATCH_SIZE, Len(h.rows) - h.i)
    /\ (h.pc = "await" /\ g # h) =>
          /\ orders' = orders
          /\ g.success = h.success /\ g.failed = h.failed
          /\ g.pc = "write" => AllSettled(h.results)
    /\ h.pc = "write" =>
          /\ g.j = h.j + 1
          /\ Len(g.success) + Len(g.failed)
                = Len(h.success) + Len(h.failed) + 1
          /\ Len(g.success) + Len(g.failed) = h.i + g.j
          /\ (orders' # orders) => Len(g.success) = Len(h.success) + 1
          /\ g.i = IF h.i + g.j = Min(h.i + BATCH_SIZE, Len(h.rows))
                   THEN h.i + BATCH_SIZE ELSE h.i

C14_Ended(h) ==
    /\ h.i = BATCH_SIZE * Ceil(Len(h.rows))
    /\ h.success = ExpectedSuccess(h.rows)
    /\ h.failed = ExpectedFailed(h.rows)
    /\ Len(h.success) + Len(h.failed) = Len(h.rows)

C14_ChunksAndWrites ==
    /\ [](/\ sync.pc = "ended" => C14_Ended(sync)
          /\ \A s \in Sessions : EndedAs(s, "done") => C14_Ended(stream[s]))
    /\ [][/\ running' = "sync" \/ running = "sync" \/ sync' # sync
               => C14_Handler(sync, sync')
          /\ \A s \in Sessions : stream'[s] # stream[s]
               => C14_Handler(stream[s], stream'[s])]_vars

\* six rows, the second and the sixth valid, imported by both handlers in
\* two chunks with two store writes each
C14_Witness ==
    /\ sync.pc = "ended"
    /\ sync.rows = <<RowNeg, RowA, RowNeg, RowNeg, RowNeg, RowA>>
    /\ sync.i = 2 * BATCH_SIZE
    /\ Len(sync.success) = 2
    /\ EndedAs("s1", "done")
    /\ stream["s1"].rows = sync.rows
    /\ stream["s1"].i = 2 * BATCH_SIZE
    /\ Last(Out("s1")).success = 2

\* C15: an upload that cannot be parsed fails the import as a whole before
\* any row is processed.  The request is answered with an error; no record
\* is written or changed, no session is registered, and no session,
\* progress or terminal event is sent, then or later.
C15_ParseError ==
    /\ [](\A s \in Sessions : stream[s].pc = "rejected" =>
             /\ Out(s) = <<>>
             /\ s \notin importSessions
             /\ stream[s].rows = <<>>
             /\ stream[s].processed = 0
             /\ stream[s].response.status = 400)
    /\ [][/\ \A s \in Sessions :
               /\ (stream[s].pc # "rejected" /\ stream'[s].pc = "rejected") =>
                     /\ stream[s].pc = "idle"
                     /\ orders' = orders
                     /\ importSessions' = importSessions
               /\ stream[s].pc = "rejected" => stream'[s] = stream[s]
          /\ (sync' # sync /\ "error" \in DOMAIN sync'.response) =>
               /\ orders' = orders
               /\ importSessions' = importSessions
               /\ sync'.pc = "ended"
               /\ sync'.rows = <<>>
               /\ sync'.success = <<>> /\ sync'.failed = <<>>]_vars

\* both imports were refused for an unparseable file while the table holds
\* the two orders of an earlier import
C15_Witness ==
    /\ stream["s1"].pc = "rejected"
    /\ stream["s1"].response = ErrorResponse(400, "Invalid CSV")
    /\ sync.pc = "ended"
    /\ sync.response = ErrorResponse(400, "Invalid CSV")
    /\ DOMAIN orders = {1, 2}

\* C16: validation reports the first failing check in a fixed order.  A row
\* with an unparseable latitude, longitude or subtotal fails with "Invalid
\* numbers" whatever else is wrong with it; otherwise a row whose subtotal
\* is not positive fails with "subtotal must be positive" even when its
\* coordinates are out of region; only otherwise can it fail with
\* "Coordinates outside New York State".  The classes are read off the raw
\* fields of the row.
BadNumber(r) ==
    \/ r.latitude = <<"a", "b", "c">>
    \/ r.longitude = <<"x">>
    \/ r.subtotal = <<"a", "b", "c">>

NonPositive(r) == r.subtotal \in {<<"0">>, <<"-", "5">>}

OutOfRegion(r) ==
    \/ r.latitude = <<"1", "0", ".", "0">>
    \/ r.longitude = <<"-", "1", "0", ".", "0">>

C16_Expected(r) ==
    IF BadNumber(r) THEN "Invalid numbers"
    ELSE IF NonPositive(r) THEN "subtotal must be positive"
    ELSE IF OutOfRegion(r) THEN "Coordinates outside New York State"
    ELSE Null

C16_ValidationOrder ==
    /\ (sync.pc \in {"await", "write"} /\ Len(sync.rows) = 1) =>
          LET r == sync.rows[1]
              result == sync.results[1]
          IN  IF C16_Expected(r) = Null THEN result.status # "rejected"
              ELSE result = Rejected(C16_Expected(r))
    /\ (sync.pc = "ended" /\ Len(sync.rows) = 1) =>
          LET r == sync.rows[1]
          IN  IF C16_Expected(r) = Null
              THEN sync.failed = <<>> /\ Len(sync.success) = 1
              ELSE /\ sync.success = <<>>
                   /\ sync.failed = <<[original_id |-> r.id,
                                       error |-> C16_Expected(r)]>>
    /\ (manual.pc # "idle" /\ Missing \notin {manual.body.latitude,
                 manual.body.longitude, manual.body.subtotal}) =>
          IF C16_Expected(manual.body) = Null
          THEN manual.response.status \in {0, 201}
          ELSE /\ manual.pc = "ended"
               /\ manual.response.status \in {400, 422}
               /\ manual.response.error = C16_Expected(manual.body)

\* a row with an unparseable longitude, a negative subtotal and a latitude
\* out of region was imported, and a body with a zero subtotal and a
\* longitude out of region was posted
C16_Witness ==
    /\ sync.pc = "ended"
    /\ sync.rows = <<Row(<<"1">>, <<"1", "0", ".", "0">>, <<"x">>,
                         <<"-", "5">>, "")>>
    /\ sync.failed[1].error = "Invalid numbers"
    /\ manual.pc = "ended"
    /\ manual.body = Row(<<"1">>, LatManhattan, <<"-", "1", "0", ".", "0">>,
                         <<"0">>, "")
    /\ manual.response = ErrorResponse(400, "subtotal must be positive")

\* C17: a lookup that ends without a county code of the rate table never
\* fails its row.  The task is fulfilled with the fallback rate, composite
\* 0.08 and no county code, and the row is written and counted as a
\* success.
C17_Unmapped(end) == \A r \in NY_COUNTY_RATES : r.fips # end

C17_FallbackTax(tax) ==
    /\ tax.composite_tax_rate = 8000
    /\ tax.county_fips = Null
    /\ tax.tax_region = "New York State (fallback)"

C18_Original ==
    \A k \in 1..Len(sync.results) :
        sync.results[k].status = "pending" =>
            Call(sync.results[k]).elapsed <= Timeout

\* C20: the report of a synchronous import and the done event of a
\* streaming import of N rows carry success + failed = N, success the number
\* of rows written, failed the number of rows rejected, and errors the first
\* min(20, failed) failures in the order of the rows.
C20_Min(a, b) == IF a < b THEN a ELSE b

RECURSIVE C20_Failures(_)
\* the failures of a file, read off the raw fields of its rows
C20_Failures(rows) ==
    IF rows = <<>> THEN <<>>
    ELSE LET r == rows[1]
             rest == C20_Failures(Tail(rows))
         IN  IF C16_Expected(r) = Null THEN rest
             ELSE <<[original_id |-> r.id, error |-> C16_Expected(r)]>>
                      \o rest

C20_Report(rows, report) ==
    /\ report.success + report.failed = Len(rows)
    /\ report.failed = Len(C20_Failures(rows))
    /\ report.errors = SubSeq(C20_Failures(rows), 1,
                              C20_Min(MaxErrors, report.failed))

C20_Counted(h, g) ==
    /\ Len(g.success) > Len(h.success) =>
          g.success[Len(g.success)].id \in DOMAIN orders'
    /\ Len(g.failed) > Len(h.failed) =>
          /\ orders' = orders
          /\ Len(g.success) = Len(h.success)

C20_Totals ==
    /\ [](/\ sync.pc = "ended" => C20_Report(sync.rows, sync.response)
          /\ \A s \in Sessions : EndedAs(s, "done") =>
                C20_Report(stream[s].rows, Last(Out(s))))
    /\ [][/\ C20_Counted(sync, sync')
          /\ \A s \in Sessions : C20_Counted(stream[s], stream'[s])]_vars

\* both imports have reported on files of MaxErrors + 1 failures, the
\* streaming one with a written row before them
C20_Witness ==
    /\ sync.pc = "ended"
    /\ sync.response.failed = MaxErrors + 1
    /\ Len(sync.response.errors) = MaxErrors
    /\ sync.response.errors[MaxErrors].original_id = Numeral(MaxErrors)
    /\ EndedAs("s1", "done")
    /\ Last(Out("s1")).success = 1
    /\ Last(Out("s1")).failed >= MaxErrors
    /\ Len(Last(Out("s1")).errors) = MaxErrors

\* round-half-up at the cent, stated without computing it: t (in units of
\* 10^-4, a whole number of cents) is the rounding of subtotal * factor /
\* 10^5 iff that value lies in [t - half a cent, t + half a cent)
HalfUpOfProduct(t, subtotal, factor) ==
    LET q == (subtotal \div 1000) * factor
             + ((subtotal % 1000) * factor) \div 1000
        cents == t \div 100
    IN  /\ t % 100 = 0
        /\ cents * 10000 - 5000 <= q
        /\ q < cents * 10000 + 5000

HalfUpOfSum(t, x) ==
    /\ t % 100 = 0
    /\ t - 50 <= x
    /\ x < t + 50

\* the breakdowns the program has produced: the result of the last call of
\* the bounding-box calculateTax and the stored orders
Breakdowns ==
    {[subtotal |-> orders[id].subtotal, b |-> orders[id]] : id \in DOMAIN orders}
        \cup {[subtotal |-> calc.subtotal, b |-> calc.result] :
                 x \in IF calc.pc = "returned" THEN {1} ELSE {}}

\* C22 as stated: every breakdown has tax_amount = round2(subtotal *
\* composite rate) and total_amount = round2(subtotal + tax_amount), round2
\* rounding half up at the cent.
C22_Original ==
    \A x \in Breakdowns :
        /\ HalfUpOfProduct(x.b.tax_amount, x.subtotal, x.b.composite_tax_rate)
        /\ HalfUpOfSum(x.b.total_amount, x.subtotal + x.b.tax_amount)

\* C23 as stated: the total is round2 of the unrounded sum, subtotal +
\* subtotal * composite rate.
C23_Original ==
    \A x \in Breakdowns :
        HalfUpOfProduct(x.b.total_amount, x.subtotal,
                        100000 + x.b.composite_tax_rate)

\* C24: for the point (40.7128, -74.0060) and subtotal 120.00 the resolver
\* chooses New York City (Manhattan) and the breakdown is rate 0.08875, tax
\* 10.65 and total 130.65.
C24_Called ==
    /\ calc.pc = "returned"
    /\ calc.lat = 407128
    /\ calc.lon = 0 - 740060
    /\ calc.subtotal = 1200000

C24_Example ==
    C24_Called =>
        /\ calc.result.tax_region = "New York City (Manhattan)"
        /\ calc.result.composite_tax_rate = 8875
        /\ calc.result.tax_amount = 106500
        /\ calc.result.total_amount = 1306500

C24_Witness == C24_Called /\ calc.result.total_amount = 1306500

\* C25 as stated: every stored order has total_amount = subtotal +
\* tax_amount.
C25_Original ==
    \A id \in DOMAIN orders :
        orders[id].total_amount = orders[id].subtotal + orders[id].tax_amount

\* C26: every jurisdiction record the resolvers can return has composite
\* rate = state + county + city + special rate, and so has every breakdown
\* produced and every order stored.
C26_Balanced(r) ==
    r.composite_tax_rate
        = r.state_rate + r.county_rate + r.city_rate + r.special_rate

C26_RateSums ==
    /\ \A k \in 1..Len(JURISDICTIONS) : C26_Balanced(JURISDICTIONS[k])
    /\ \A r \in NY_COUNTY_RATES : C26_Balanced(r)
    /\ C26_Balanced(DEFAULT_JURISDICTION)
    /\ C26_Balanced(FALLBACK_RATE)
    /\ \A x \in Breakdowns : C26_Balanced(x.b)

\* an order with the fallback rate is stored and the bounding-box resolver
\* has returned the record of Nassau County
C26_Witness ==
    /\ \E id \in DOMAIN orders : orders[id].county_fips = Null
    /\ calc.pc = "returned"
    /\ calc.result.tax_region = "Nassau County"

\* C28: the bounding-box resolver returns the first record, in table order,
\* whose box contains the point, bounds included, and the statewide default
\* (composite 0.08) when no box does.
C28_Matches(lat, lon) ==
    {k \in 1..Len(JURISDICTIONS) :
        /\ JURISDICTIONS[k].minLat <= lat
        /\ lat <= JURISDICTIONS[k].maxLat
        /\ JURISDICTIONS[k].minLon <= lon
        /\ lon <= JURISDICTIONS[k].maxLon}

C28_FirstMatch ==
    (calc.pc = "returned" /\ calc.lat # Undefined) =>
        LET matches == C28_Matches(calc.lat, calc.lon)
        IN  IF matches = {}
            THEN /\ calc.result.tax_region = "New York State"
                 /\ calc.result.composite_tax_rate = 8000
            ELSE \E k \in matches :
                    /\ \A m \in matches : k <= m
                    /\ calc.result.tax_region = JURISDICTIONS[k].name
                    /\ calc.result.composite_tax_rate
                          = JURISDICTIONS[k].composite_tax_rate

\* the resolver was asked for the corner that the boxes of Manhattan, the
\* Bronx and Westchester share
C28_Witness ==
    /\ calc.pc = "returned"
    /\ calc.lat = 408820
    /\ calc.lon = 0 - 739070
    /\ Cardinality(C28_Matches(calc.lat, calc.lon)) = 3
    /\ calc.result.tax_region = "New York City (Manhattan)"

\* C27: every stored order has subtotal > 0 and coordinates inside the box
\* of New York State, latitude 40.17..45.02 and longitude -79.77..-71.48; a
\* row or body with subtotal <= 0 or a point outside the box is not written
\* and its lookup is never issued.
C27_Acceptable(r) == ~NonPositive(r) /\ ~OutOfRegion(r) /\ ~BadNumber(r)

C27_Validated ==
    /\ \A id \in DOMAIN orders :
          /\ orders[id].subtotal > 0
          /\ orders[id].latitude >= 401700 /\ orders[id].latitude <= 450200
          /\ orders[id].longitude >= 0 - 797700
          /\ orders[id].longitude <= 0 - 714800
    /\ \A s \in Sessions :
          /\ stream[s].pc \in {"await", "write"} =>
                \A k \in 1..Len(stream[s].results) :
                    stream[s].results[k].status # "rejected" =>
                        C27_Acceptable(stream[s].rows[stream[s].i + k])
          /\ stream[s].pc = "ended" =>
                (stream[s].success # <<>>
                    <=> \E k \in 1..Len(stream[s].rows) :
                           C27_Acceptable(stream[s].rows[k]))
    /\ manual.pc = "await" => C27_Acceptable(manual.body)
    /\ manual.response.status = 201 => C27_Acceptable(manual.body)

\* a row with subtotal 0 and a body with a longitude outside the box have
\* been refused while an order of an accepted row is stored
C27_Witness ==
    /\ stream["s1"].pc = "ended"
    /\ Len(stream["s1"].rows) = 1
    /\ stream["s1"].rows[1].subtotal = <<"0">>
    /\ stream["s1"].rows[1].latitude = LatManhattan
    /\ stream["s1"].rows[1].longitude = LonManhattan
    /\ stream["s1"].failed # <<>>
    /\ manual.pc = "ended"
    /\ manual.body.longitude = <<"-", "1", "0", ".", "0">>
    /\ manual.response.status = 422
    /\ orders # <<>>

\* C29: the cancel switch of a session starts unset, is set only by a
\* cancel command for the registered session, is never reset, and a further
\* cancel command for the session changes nothing of it.
C29_SetOnce ==
    /\ [](\A s \in Sessions :
            stream[s].pc = "idle" => ~stream[s].cancelRequested)
    /\ [][\A s \in Sessions :
            /\ stream[s].cancelRequested => stream'[s].cancelRequested
            /\ (stream[s].cancelRequested /\ running' = "cancel")
                  => stream'[s] = stream[s]
            /\ (~stream[s].cancelRequested /\ stream'[s].cancelRequested)
                  => /\ s \in importSessions
                     /\ running' = "cancel"
                     /\ cancelReply'.sessionId = s
            /\ (stream[s].pc = "idle" /\ stream'[s].pc # "idle")
                  => ~stream'[s].cancelRequested]_vars

\* a cancel command has just set the switch of the registered session s1
\* between two of its chunks
C29_Witness ==
    /\ running = "cancel"
    /\ cancelReply = [sessionId |-> "s1", status |-> 200]
    /\ stream["s1"].cancelRequested
    /\ "s1" \in importSessions
    /\ stream["s1"].processed > 0

\* C30: sessions are independent.  A cancel command for one session leaves
\* the other as it is, a rollback removes no record of another tag and only
\* a session's own rollback removes a record of its tag, so a session that
\* is never cancelled processes all its rows, ends with done and keeps its
\* records.
C30_Independent ==
    /\ [](\A b \in Sessions :
            (stream[b].pc = "ended" /\ ~stream[b].cancelRequested) =>
                /\ EndedAs(b, "done")
                /\ stream[b].processed = Len(stream[b].rows)
                /\ Last(Out(b)).success + Last(Out(b)).failed
                      = Len(stream[b].rows))
    /\ [][\A a \in Sessions : \A b \in Sessions \ {a} :
            /\ (running' = "cancel" /\ cancelReply'.sessionId = a)
                  => stream'[b] = stream[b]
            /\ (running = a /\ stream[a].pc = "finish") =>
                  \A id \in DOMAIN orders :
                      orders[id].import_session_id # a =>
                          /\ id \in DOMAIN orders'
                          /\ orders'[id] = orders[id]
            /\ \A id \in DOMAIN orders :
                  (orders[id].import_session_id = b /\ id \notin DOMAIN orders')
                      => (running = b /\ stream[b].cancelRequested)]_vars

\* s1 was cancelled and rolled a record back while s2 ran to done and its
\* record is in the store
C30_Witness ==
    /\ EndedAs("s1", "cancelled")
    /\ Last(Out("s1")).rolledBack = 1
    /\ EndedAs("s2", "done")
    /\ ~stream["s2"].cancelRequested
    /\ \E id \in DOMAIN orders : orders[id].import_session_id = "s2"
    /\ \A id \in DOMAIN orders : orders[id].import_session_id # "s1"

\* the table an import of rows leaves, starting from store, as the rows,
\* the geocoder's answers and the tag determine it: each acceptable row in
\* turn replaces the order of its id, keeping that order's tag, or adds an
\* order with the tag.  stamp stands for the timestamp of a row that has
\* none.
C21_Row(store, row, tag, stamp) ==
    IF C16_Expected(row) # Null THEN store
    ELSE LET id == ParseInt(row.id)
             v == [lat |-> ParseFloat(row.latitude),
                   lon |-> ParseFloat(row.longitude),
                   ts |-> IF row.timestamp # "" THEN row.timestamp ELSE stamp,
                   tax |-> calculateTax(ParseFloat(row.subtotal), Geocode(row))]
             rec == WithTag(OrderFields(row, v),
                            IF id \in DOMAIN store
                            THEN store[id].import_session_id ELSE tag)
         IN  [k \in DOMAIN store \cup {id} |->
                 IF k = id THEN rec ELSE store[k]]

RECURSIVE C21_Store(_, _, _, _)
C21_Store(rows, store, tag, stamp) ==
    IF rows = <<>> THEN store
    ELSE C21_Store(Tail(rows), C21_Row(store, rows[1], tag, stamp), tag, stamp)

\* the table the import started from
C21_Before == IF 9 \in DOMAIN orders THEN SeededOrders ELSE <<>>

C21_Report(rows, report) ==
    /\ report.failed = Len(C20_Failures(rows))
    /\ report.success = Len(rows) - report.failed
    /\ report.errors = C20_Failures(rows)

\* actual is expected but for the timestamps that expected leaves open
C21_Agrees(actual, expected) ==
    /\ DOMAIN actual = DOMAIN expected
    /\ \A id \in DOMAIN expected :
          IF expected[id].timestamp = "?"
          THEN /\ [actual[id] EXCEPT !.timestamp = "?"] = expected[id]
               /\ \E t \in 1..Len(Times) : actual[id].timestamp = Times[t]
          ELSE actual[id] = expected[id]

\* two tables differ only in the tag of the orders that were not in before
C21_SameButTags(x, y, before) ==
    /\ DOMAIN x = DOMAIN y
    /\ \A id \in DOMAIN x :
          IF id \in DOMAIN before THEN x[id] = y[id]
          ELSE [x[id] EXCEPT !.import_session_id = Null]
                   = [y[id] EXCEPT !.import_session_id = Null]

C31_Elsewhere(row) ==
    /\ C16_Expected(row) = Null
    /\ Geocode(row) # NoCensus
    /\ ~\E r \in NY_COUNTY_RATES : r.fips = Geocode(row)

\* C31 as stated: an order whose coordinates the geocoder resolves to a
\* region outside New York State is rejected and not persisted: at the end
\* of an import every such row is among the failures and no order carries
\* its coordinates.
C31_Original ==
    sync.pc = "ended" =>
        \A k \in 1..Len(sync.rows) :
            C31_Elsewhere(sync.rows[k]) =>
                /\ sync.response.failed > Len(C20_Failures(sync.rows))
                /\ \A id \in DOMAIN orders :
                      orders[id].latitude # ParseFloat(sync.rows[k].latitude)

\* the tasks of a handler whose geocoder call is outstanding
C32_InFlight(h) ==
    {k \in 1..Len(h.results) : h.results[k].status = "pending"}

C32_Handler(h) ==
    /\ Cardinality(C32_InFlight(h)) <= BATCH_SIZE
    /\ h.pc \in {"await", "write"} =>
          /\ Len(h.results) <= BATCH_SIZE
          /\ Len(h.results) = Len(Slice(h.rows, h.i))
    /\ h.pc = "write" => C32_InFlight(h) = {}
    /\ C32_InFlight(h) # {} =>
          /\ h.pc = "await"
          /\ Len(h.success) + Len(h.failed) = h.i

\* C32: within one import at most BATCH_SIZE resolution calls are in
\* flight, all of the current chunk; no write of a chunk starts before every
\* resolution of the chunk has settled, and no resolution of the next chunk
\* starts before every row of the chunks before it was persisted or recorded
\* as failed.
C32_Batched == C32_Handler(stream["s1"]) /\ C32_Handler(sync)

\* the second chunk of a streaming import is in flight after a first chunk
\* of five valid rows was resolved and written
C32_Witness ==
    /\ stream["s1"].pc = "await"
    /\ stream["s1"].i = BATCH_SIZE
    /\ Len(stream["s1"].success) = BATCH_SIZE
    /\ C32_InFlight(stream["s1"]) # {}

\* C33 as stated: after every processed row, succeeded or failed, the
\* streaming import emits a progress event with the running processed count
\* and the identifier of that row: the k-th event after the session event
\* is the progress event of row k and carries k and the id of row k.
C33_Original ==
    \A s \in Sessions :
        \A k \in 1..stream[s].processed :
            /\ Len(Out(s)) >= k + 1
            /\ Out(s)[k + 1].type = "progress"
            /\ Out(s)[k + 1].processed = k
            /\ Out(s)[k + 1].id = ParseInt(stream[s].rows[k].id)

\* the rows of a file whose id is missing or not a number
C34_WithoutId(rows) == {k \in 1..Len(rows) : ParseInt(rows[k].id) = NaN}

C34_Import(rows, failed) ==
    /\ \A k \in C34_WithoutId(rows) :
          \E e \in 1..Len(failed) : failed[e].original_id = rows[k].id
    /\ Cardinality(DOMAIN orders) <= Len(rows) - Cardinality(C34_WithoutId(rows))

\* C34 as stated: a row in which a required field is missing or not
\* parseable is reported as a validation failure and not persisted; a row
\* with a missing or non-numeric id never reaches the store.  At the end of
\* an import on an empty table every such row is among the failures and the
\* table has at most one order per row with a numeric id.
C34_Original ==
    /\ EndedAs("s1", "done") =>
          C34_Import(stream["s1"].rows, stream["s1"].failed)
    /\ sync.pc = "ended" => C34_Import(sync.rows, sync.failed)

\* C35 as stated: whenever a cancel command for a session returns ok, the
\* session's terminal event is cancelled and never done, and its rollback
\* runs.  The command returns ok exactly when it sets the session's switch:
\* a session whose switch is set never ends with done, and it does end, with
\* cancelled and with none of its records left.
C35_Original ==
    /\ [](\A s \in Sessions :
             stream[s].cancelRequested => ~EndedAs(s, "done"))
    /\ \A s \in Sessions :
          stream[s].cancelRequested ~>
              (/\ EndedAs(s, "cancelled")
               /\ \A id \in DOMAIN orders : orders[id].import_session_id # s)

\* the ids a session has counted as successes
C36_Counted(s) ==
    {stream[s].success[k].id : k \in 1..Len(stream[s].success)}

C36_EndsDone(s) ==
    /\ stream[s].pc = "finish"
    /\ stream'[s].pc = "ended"
    /\ Last(stream'[s].out).type = "done"

\* C36 as stated: with several streaming sessions running, when a session
\* emits done every id it counted as a success is in the table at that
\* moment, and the rollback of another session's cancellation removes no
\* record that this session, itself not cancelled, wrote and reported as a
\* success.
C36_Original ==
    [][\A s \in Sessions :
          /\ C36_EndsDone(s) => C36_Counted(s) \subseteq DOMAIN orders'
          /\ \A other \in Sessions \ {s} :
                C6_EndsCancelled(other) /\ ~stream[s].cancelRequested =>
                    C36_Counted(s) \cap DOMAIN orders \subseteq DOMAIN orders']_vars

\* the records that carry the tag of a session
C37_Tagged(tbl, s) == {id \in DOMAIN tbl : tbl[id].import_session_id = s}

\* the write loop of session s handles a row: the id it inserts, if any
C37_Writes(s) == stream[s].pc = "write" /\ stream'[s] # stream[s]

C37_Inserted(s) ==
    IF /\ Len(stream'[s].success) > Len(stream[s].success)
       /\ Last(stream'[s].success).id \notin DOMAIN orders
    THEN {Last(stream'[s].success).id}
    ELSE {}

\* C37: the records tagged with a session are at any time the distinct ids
\* that the session has newly inserted (a row that updates a record, its
\* own or another's, adds none, and no step of another request removes or
\* adds one); the rolledBack count of a cancelled session is their number,
\* which is at most the number of rows that succeeded.
C37_RolledBack ==
    /\ [](\A s \in Sessions :
             /\ stream[s].pc = "idle" => C37_Tagged(orders, s) = {}
             /\ C37_Tagged(orders, s) \subseteq C36_Counted(s))
    /\ [][\A s \in Sessions :
             /\ C37_Writes(s) =>
                   C37_Tagged(orders', s)
                       = C37_Tagged(orders, s) \cup C37_Inserted(s)
             /\ C6_EndsCancelled(s) =>
                   /\ Last(stream'[s].out).rolledBack
                          = Cardinality(C37_Tagged(orders, s))
                   /\ Last(stream'[s].out).rolledBack <= Len(stream[s].success)
             /\ ~C37_Writes(s) /\ ~C6_EndsCancelled(s) =>
                   C37_Tagged(orders', s) = C37_Tagged(orders, s)]_vars

\* a cancelled session had two successes with the same id, which the other
\* session has rewritten in between, and rolled one record back
C37_Witness ==
    /\ EndedAs("s1", "cancelled")
    /\ Len(stream["s1"].success) = 2
    /\ Last(Out("s1")).rolledBack = 1
    /\ 1 \in C36_Counted("s2")
    /\ ~stream["s2"].cancelRequested

\* the step that ends a manual creation with an order
C38_Creates == manual.pc = "await" /\ manual'.pc = "ended"

\* the creation made the id max + 1 and added one untagged record under it,
\* every other record staying as it was
C38_Inserted ==
    LET id == getMaxId(orders) + 1
    IN  /\ manual'.response.id = id
        /\ id \notin DOMAIN orders
        /\ DOMAIN orders' = DOMAIN orders \cup {id}
        /\ orders'[id].import_session_id = Null
        /\ \A k \in DOMAIN orders : orders'[k] = orders[k]

\* the same at the width of the id column: the id made is max + 1 and the
\* INSERT succeeds
C38_InsertedWide ==
    rowids.pc # "idle" =>
        /\ rowids.pc = "created"
        /\ rowids.newId = BigNorm(BigAdd(rowids.maxId, <<1>>))

\* C38: a manual creation takes the id (current maximum) + 1 and always
\* inserts a new untagged record; whatever imports and creations run
\* beside it, it never overwrites a record and its id never collides
C38_Original ==
    /\ [][C38_Creates => C38_Inserted]_vars
    /\ []C38_InsertedWide

\* the interleaving half of C38 alone
C38_Atomic == [][C38_Creates => C38_Inserted]_vars

====
